---- MODULE Spec2Model ----
(***************************************************************************)
(* Model of the Semesters MCP server (class SemestersMCP): the tool        *)
(* dispatcher installed by setupHandlers and the eight tool handlers.      *)
(*                                                                         *)
(* Conventions                                                             *)
(*  - A JavaScript string is a TLA+ string; String.prototype.includes,     *)
(*    toLowerCase and toUpperCase are computed character by character.     *)
(*  - The source's non-ASCII glyphs and grave accents are written as ASCII *)
(*    stand-ins naming their code points (CROSS, CHECK, WARN, ARROW,       *)
(*    FENCE); no input of the model contains '<', so an input never        *)
(*    contains a stand-in.                                                 *)
(*  - An arguments object is a function from its own keys to values; a     *)
(*    key that is absent reads as undefined.                               *)
(*  - A JavaScript number is held in tenths (15 is 1.5).                   *)
(*  - A call either returns a value or throws; the SDK turns a throw into  *)
(*    a protocol-level (JSON-RPC) error response.                          *)
(***************************************************************************)
EXTENDS Integers, Sequences, FiniteSets, TLC

VARIABLES pc, request, response, locals, tables, inbox, log

vars == <<pc, request, response, locals, tables, inbox, log>>

-----------------------------------------------------------------------------
(* Bounds of the model *)

\* Longest content / mechanic / code text, in vocabulary words.
MaxWords == 2

\* Largest number of members of an activity object.
MaxMembers == 2

\* Longest modalities / inputMethods array.
MaxMethods == 2

\* Largest whole target level tried.
MaxTargetLevel == 5

\* Largest number of requests waiting in the transport at once.
MaxPending == 2

-----------------------------------------------------------------------------
(* Glyphs of the source text *)

CROSS == "<U+274C>"
CHECK == "<U+2705>"
WARN == "<U+26A0><U+FE0F>"
ARROW == "<U+2192>"
\* Three grave accents, which a TLA+ string cannot hold either.
FENCE == "<U+0060><U+0060><U+0060>"

-----------------------------------------------------------------------------
(* JavaScript string primitives *)

UpperLetters == <<"A","B","C","D","E","F","G","H","I","J","K","L","M",
                  "N","O","P","Q","R","S","T","U","V","W","X","Y","Z">>

LowerLetters == <<"a","b","c","d","e","f","g","h","i","j","k","l","m",
                  "n","o","p","q","r","s","t","u","v","w","x","y","z">>

\* The character c mapped through the letter table from -> to.
MapChar(c, from, to) ==
  IF \E i \in 1..Len(from) : from[i] = c
  THEN to[CHOOSE i \in 1..Len(from) : from[i] = c]
  ELSE c

RECURSIVE MapString(_, _, _)
MapString(s, from, to) ==
  IF Len(s) = 0 THEN ""
  ELSE MapChar(SubSeq(s, 1, 1), from, to) \o MapString(SubSeq(s, 2, Len(s)), from, to)

\* String.prototype.toLowerCase
ToLowerCase(s) == MapString(s, UpperLetters, LowerLetters)

\* String.prototype.toUpperCase
ToUpperCase(s) == MapString(s, LowerLetters, UpperLetters)

\* String.prototype.includes: p occurs in s as a contiguous substring.
Includes(s, p) ==
  \E i \in 0..(Len(s) - Len(p)) : SubSeq(s, i + 1, i + Len(p)) = p

\* String.prototype.replace(pattern, by) with a string pattern: the first
\* occurrence only.
Replace(s, p, by) ==
  IF Includes(s, p)
  THEN LET i == CHOOSE k \in 0..(Len(s) - Len(p)) :
                  /\ SubSeq(s, k + 1, k + Len(p)) = p
                  /\ \A j \in 0..(k - 1) : SubSeq(s, j + 1, j + Len(p)) # p
       IN SubSeq(s, 1, i) \o by \o SubSeq(s, i + Len(p) + 1, Len(s))
  ELSE s

\* Array.prototype.join
RECURSIVE Join(_, _)
Join(seq, sep) ==
  IF Len(seq) = 0 THEN ""
  ELSE IF Len(seq) = 1 THEN seq[1]
  ELSE seq[1] \o sep \o Join(Tail(seq), sep)

\* Array.prototype.map
Map(seq, F(_)) == [i \in 1..Len(seq) |-> F(seq[i])]

\* Array.prototype.filter
Filter(seq, P(_)) == SelectSeq(seq, P)

\* Array.prototype.includes on an array of strings.
ArrayIncludes(seq, x) == \E i \in 1..Len(seq) : seq[i] = x

Digits == <<"0","1","2","3","4","5","6","7","8","9">>

RECURSIVE NatToString(_)
NatToString(n) ==
  IF n < 10 THEN Digits[n + 1]
  ELSE NatToString(n \div 10) \o Digits[(n % 10) + 1]

\* Number -> string as a template literal renders it; t is in tenths.
NumberToString(t) ==
  LET a == IF t < 0 THEN -t ELSE t
  IN (IF t < 0 THEN "-" ELSE "")
       \o NatToString(a \div 10)
       \o (IF a % 10 = 0 THEN "" ELSE "." \o Digits[(a % 10) + 1])

\* Reading a key of an arguments object: present or undefined.
Has(args, key) == key \in DOMAIN args

-----------------------------------------------------------------------------
(* JSON values and JSON.stringify *)

JStr(s) == [t |-> "string", s |-> s]
JNum(n) == [t |-> "number", n |-> n]
JArr(items) == [t |-> "array", items |-> items]
\* members: a sequence of <<key, value>> pairs in insertion order.
JObj(members) == [t |-> "object", members |-> members]

\* One character of a JSON string literal, escaped as JSON.stringify does.
EscapeChar(c) ==
  CASE c = "\"" -> "\\\""
    [] c = "\\" -> "\\\\"
    [] c = "\n" -> "\\n"
    [] c = "\t" -> "\\t"
    [] OTHER -> c

RECURSIVE Escape(_)
Escape(s) ==
  IF Len(s) = 0 THEN ""
  ELSE EscapeChar(SubSeq(s, 1, 1)) \o Escape(SubSeq(s, 2, Len(s)))

Quote(s) == "\"" \o Escape(s) \o "\""

\* JSON.stringify(j, null, gap) at the current indentation; gap = "" is the
\* compact form JSON.stringify(j).
RECURSIVE Stringify(_, _, _)
Stringify(j, gap, indent) ==
  LET inner == indent \o gap
      sep == IF gap = "" THEN "," ELSE ",\n" \o inner
      open == IF gap = "" THEN "" ELSE "\n" \o inner
      close == IF gap = "" THEN "" ELSE "\n" \o indent
      colon == IF gap = "" THEN ":" ELSE ": "
  IN CASE j.t = "string" -> Quote(j.s)
       [] j.t = "number" -> NumberToString(j.n)
       [] j.t = "array" ->
            IF Len(j.items) = 0 THEN "[]"
            ELSE "[" \o open
                   \o Join([i \in 1..Len(j.items) |-> Stringify(j.items[i], gap, inner)], sep)
                   \o close \o "]"
       [] j.t = "object" ->
            IF Len(j.members) = 0 THEN "{}"
            ELSE "{" \o open
                   \o Join([i \in 1..Len(j.members) |->
                              Quote(j.members[i][1]) \o colon
                                \o Stringify(j.members[i][2], gap, inner)], sep)
                   \o close \o "}"

-----------------------------------------------------------------------------
(* Outcomes of a call *)

\* return { content: [ { type: 'text', text } ] }
TextResponse(text, vars_) ==
  [kind |-> "return",
   value |-> [content |-> <<[type |-> "text", text |-> text]>>],
   locals |-> vars_]

\* An exception leaving the handler.
Throw(name, message) ==
  [kind |-> "throw",
   error |-> [name |-> name, message |-> message],
   locals |-> [none |-> TRUE]]

-----------------------------------------------------------------------------
(* Static tables *)

TRAUMA_INFORMED_PRINCIPLES ==
  [avoid |-> <<"wrong", "incorrect", "mistake", "error", "failed", "try again",
               "you should", "you need to", "that's not right", "no">>,
   encourage |-> <<"great try", "let's practice", "you're learning", "nice work",
                   "want to try together", "your brain is growing",
                   "every attempt helps">>,
   principles |-> <<"No failure states",
                    "Child has control",
                    "Unconditional positive regard",
                    "Multiple pathways to success",
                    "Celebrate effort over accuracy">>]

-----------------------------------------------------------------------------
(* Template literals *)

\* ${x} of a string argument: its text, or "undefined" when it is absent.
Interpolate(args, key) == IF Has(args, key) THEN args[key] ELSE "undefined"

-----------------------------------------------------------------------------
(* generate_dyslexia_ui *)

getColorScheme(intent) ==
  CASE intent = "comfort" ->
         [bg |-> "bg-pink-100", border |-> "border-pink-200", text |-> "text-pink-900"]
    [] intent = "celebration" ->
         [bg |-> "bg-blue-100", border |-> "border-blue-200", text |-> "text-blue-900"]
    [] intent = "secondary" ->
         [bg |-> "bg-gray-100", border |-> "border-gray-200", text |-> "text-gray-900"]
    [] OTHER ->
         [bg |-> "bg-green-100", border |-> "border-green-200", text |-> "text-green-900"]

buttonTemplate(colors, content) ==
  "\n<button \n  className=\"\n    font-['OpenDyslexic,Verdana,Arial,sans-serif'] \n    text-xl px-8 py-4 rounded-lg\n    "
    \o colors.bg \o " hover:" \o Replace(colors.bg, "100", "200")
    \o "\n    " \o colors.border \o " border-2\n    " \o colors.text
    \o "\n    transition-colors duration-200\n    focus:outline-none focus:ring-4 focus:ring-opacity-50\n    min-h-[60px] min-w-[120px]\n    tracking-wide\n  \"\n  aria-label=\""
    \o content \o "\"\n>\n  " \o content \o "\n</button>"

textTemplate(colors, content) ==
  "\n<p \n  className=\"\n    font-['OpenDyslexic,Verdana,Arial,sans-serif']\n    text-lg leading-relaxed tracking-wide\n    "
    \o colors.text \o "\n    max-w-prose\n  \"\n>\n  " \o content \o "\n</p>"

inputTemplate(colors, content) ==
  "\n<input\n  className=\"\n    font-['OpenDyslexic,Verdana,Arial,sans-serif']\n    text-lg px-4 py-3 rounded-lg\n    border-2 "
    \o colors.border
    \o "\n    focus:border-blue-300 focus:ring-2 focus:ring-blue-200\n    bg-cream-50 min-h-[50px]\n    tracking-wide\n  \"\n  placeholder=\""
    \o content \o "\"\n  aria-label=\"" \o content \o "\"\n/>"

cardTemplate(colors, content) ==
  "\n<div \n  className=\"\n    " \o colors.bg \o " " \o colors.border
    \o " border-2 rounded-lg\n    p-6 shadow-sm\n    font-['OpenDyslexic,Verdana,Arial,sans-serif']\n  \"\n>\n  <div className=\"text-lg "
    \o colors.text \o " leading-relaxed tracking-wide\">\n    " \o content
    \o "\n  </div>\n</div>"

\* switch (componentType) { ... }: no case matches leaves component = ''.
Component(args, colors, content) ==
  IF ~Has(args, "componentType") THEN ""
  ELSE CASE args.componentType = "button" -> buttonTemplate(colors, content)
         [] args.componentType = "text" -> textTemplate(colors, content)
         [] args.componentType = "input" -> inputTemplate(colors, content)
         [] args.componentType = "card" -> cardTemplate(colors, content)
         [] OTHER -> ""

generateDyslexiaUI(args) ==
  LET componentType == Interpolate(args, "componentType")
      content == Interpolate(args, "content")
      intent == IF Has(args, "intent") THEN args.intent ELSE "primary"
      colors == getColorScheme(intent)
      component == Component(args, colors, content)
  IN TextResponse(
       "Generated dyslexia-friendly " \o componentType \o " component:\n\n" \o component
         \o "\n\nFeatures:\n- OpenDyslexic font with fallbacks\n- High contrast colors\n- Large touch targets (min 44px)\n- Generous spacing and padding\n- Proper ARIA labels\n- Focus indicators",
       [tool |-> "generate_dyslexia_ui",
        intent |-> intent,
        colors |-> colors,
        component |-> component])

-----------------------------------------------------------------------------
(* generate_phoneme_activity *)

\* Faulty variant of PhonemeComponents: the modalities list is not consulted,
\* only the assessment sub-tree is added.
PhonemeComponentsAssessmentOnly(phoneme, requested) ==
  << <<"assessment", JObj(<<
       <<"masteryIndicators", JArr(<<JStr("Automatic recognition (< 2 seconds)"),
                                     JStr("Correct sound production"),
                                     JStr("Proper letter formation")>>)>>,
       <<"practiceStructure",
         JStr("Present " \o ARROW \o " Model " \o ARROW \o " Practice " \o ARROW
                \o " Assess " \o ARROW \o " Celebrate")>> >>)>> >>

\* The sub-trees of activity.components, in the order the handler adds them.
PhonemeComponents(phoneme, requested) ==
  (IF ArrayIncludes(requested, "visual")
   THEN <<<<"visual", JObj(<<
          <<"letterDisplay", JStr("Large, clear display of letter \"" \o ToUpperCase(phoneme) \o "\"")>>,
          <<"visualization", JStr("Child sees the letter in high contrast")>>,
          <<"animation", JStr("Letter appears with gentle fade-in effect")>> >>)>>>>
   ELSE <<>>)
  \o (IF ArrayIncludes(requested, "auditory")
      THEN <<<<"auditory", JObj(<<
             <<"phonemeSound", JStr("Clear pronunciation of /" \o phoneme \o "/ sound")>>,
             <<"repetition", JStr("Sound plays automatically when letter appears")>>,
             <<"childRepeat", JStr("Child encouraged to repeat the sound aloud")>> >>)>>>>
      ELSE <<>>)
  \o (IF ArrayIncludes(requested, "kinesthetic")
      THEN <<<<"kinesthetic", JObj(<<
             <<"letterTracing", JStr("Child traces letter shape with finger on screen")>>,
             <<"airWriting", JStr("Child \"writes\" letter in the air")>>,
             <<"bodyMovement", JStr("Associate letter with body movement or gesture")>> >>)>>>>
      ELSE <<>>)
  \o (IF ArrayIncludes(requested, "tactile")
      THEN <<<<"tactile", JObj(<<
             <<"textureAssociation", JStr("Connect letter with tactile experience")>>,
             <<"hapticFeedback", JStr("Device vibration when letter is traced correctly")>>,
             <<"physicalProps", JStr("Optional: textured letter cards for real-world practice")>> >>)>>>>
      ELSE <<>>)
  \o << <<"assessment", JObj(<<
          <<"masteryIndicators", JArr(<<JStr("Automatic recognition (< 2 seconds)"),
                                        JStr("Correct sound production"),
                                        JStr("Proper letter formation")>>)>>,
          <<"practiceStructure",
            JStr("Present " \o ARROW \o " Model " \o ARROW \o " Practice " \o ARROW
                   \o " Assess " \o ARROW \o " Celebrate")>> >>)>> >>

generatePhonemeActivity(args) ==
  IF ~Has(args, "modalities")
  THEN Throw("TypeError", "Cannot read properties of undefined (reading 'includes')")
  ELSE IF ~Has(args, "phoneme") /\ ArrayIncludes(args.modalities, "visual")
  THEN Throw("TypeError", "Cannot read properties of undefined (reading 'toUpperCase')")
  ELSE
    LET phoneme == Interpolate(args, "phoneme")
        \* JSON.stringify leaves out a member whose value is undefined.
        activity ==
          JObj((IF Has(args, "phoneme") THEN << <<"phoneme", JStr(phoneme)>> >> ELSE <<>>)
               \o << <<"type", JStr("multisensory_practice")>>,
                     <<"components", JObj(PhonemeComponents(phoneme, args.modalities))>> >>)
    IN TextResponse(
         "MULTISENSORY PHONEME ACTIVITY\n\nTarget Phoneme: /" \o phoneme
           \o "/\nModalities: " \o Join(args.modalities, ", ")
           \o "\n\nActivity Structure:\n" \o Stringify(activity, "  ", "")
           \o "\n\nOG Compliance:\n- Follows systematic phonics progression\n- Includes explicit instruction\n- Provides multisensory reinforcement\n- Builds to automatic recognition\n\nImplementation Notes:\n- Always celebrate attempts, not just accuracy\n- Allow multiple practice opportunities\n- Monitor for stress and adjust accordingly\n- Progress only after mastery demonstrated",
         [tool |-> "generate_phoneme_activity", activity |-> activity])

-----------------------------------------------------------------------------
(* review_trauma_content *)

pressureWords == <<"must", "should", "have to", "need to", "required">>

\* Faulty variant of AvoidIssues: the content is not lower-cased before the
\* comparison.
AvoidIssuesCaseSensitive(content) ==
  Map(Filter(TRAUMA_INFORMED_PRINCIPLES.avoid, LAMBDA word : Includes(content, word)),
      LAMBDA word : "Contains potentially triggering word: \"" \o word \o "\"")

\* TRAUMA_INFORMED_PRINCIPLES.avoid.forEach(...): one issue per avoid phrase
\* found in the lower-cased content, in table order.
AvoidIssues(content) ==
  Map(Filter(TRAUMA_INFORMED_PRINCIPLES.avoid,
             LAMBDA word : Includes(ToLowerCase(content), ToLowerCase(word))),
      LAMBDA word : "Contains potentially triggering word: \"" \o word \o "\"")

\* pressureWords.forEach(...)
\* Faulty variant of PressureIssues: the context of the request is scanned
\* together with the content.
PressureIssuesWithContext(content) ==
  LET scanned ==
        IF request.kind = "call" /\ Has(request.arguments, "context")
        THEN content \o " " \o request.arguments.context
        ELSE content
  IN Map(Filter(pressureWords, LAMBDA word : Includes(ToLowerCase(scanned), word)),
         LAMBDA word : "May create pressure with word: \"" \o word \o "\"")

\* pressureWords.forEach(...): one issue per pressure word found, in order.
PressureIssues(content) ==
  Map(Filter(pressureWords, LAMBDA word : Includes(ToLowerCase(content), word)),
      LAMBDA word : "May create pressure with word: \"" \o word \o "\"")

\* Faulty variant of ReviewAlternatives: the alternatives are always offered.
ReviewAlternativesAlways(issues) ==
  <<"Great try! Let's practice that together.",
    "You're learning! Every attempt makes your brain stronger.",
    "Want to try another way?",
    "Nice work exploring that sound!">>

\* if (issues.length > 0) { alternatives.push(...) }
ReviewAlternatives(issues) ==
  IF Len(issues) > 0
  THEN <<"Great try! Let's practice that together.",
         "You're learning! Every attempt makes your brain stronger.",
         "Want to try another way?",
         "Nice work exploring that sound!">>
  ELSE <<>>

\* Faulty variant of IsTraumaInformed: only the first call of a session can be
\* found compliant.
IsTraumaInformedFirstCallOnly(issues) == Len(issues) = 0 /\ log = {}

\* const isTraumaInformed = issues.length === 0
IsTraumaInformed(issues) == Len(issues) = 0

reviewTraumaContent(args) ==
  IF ~Has(args, "content")
  THEN Throw("TypeError", "Cannot read properties of undefined (reading 'toLowerCase')")
  ELSE
    LET content == args.content
        context == IF Has(args, "context") THEN args.context ELSE ""
        issues == AvoidIssues(content) \o PressureIssues(content)
        alternatives == ReviewAlternatives(issues)
        isTraumaInformed == IsTraumaInformed(issues)
    IN TextResponse(
         "TRAUMA-INFORMED CONTENT REVIEW\n\nContent: \"" \o content
           \o "\"\nContext: " \o context \o "\n\n"
           \o (IF isTraumaInformed
               THEN CHECK \o " TRAUMA-INFORMED COMPLIANT"
               ELSE CROSS \o " ISSUES DETECTED")
           \o "\n\n"
           \o (IF Len(issues) > 0
               THEN "Issues:\n"
                      \o Join(Map(issues, LAMBDA i : "- " \o i), "\n")
                      \o "\n\nPositive Alternatives:\n"
                      \o Join(Map(alternatives, LAMBDA a : "- \"" \o a \o "\""), "\n")
               ELSE "No trauma-informed issues detected. Content supports psychological safety.")
           \o "\n\nPrinciples Applied:\n"
           \o Join(Map(TRAUMA_INFORMED_PRINCIPLES.principles, LAMBDA p : "- " \o p), "\n"),
         [tool |-> "review_trauma_content",
          issues |-> issues,
          alternatives |-> alternatives,
          verdict |-> isTraumaInformed])

-----------------------------------------------------------------------------
(* validate_og_activity *)

OG_CURRICULUM ==
  [level1 |-> [phonemes |-> <<"a", "b", "c", "d", "e", "f", "g", "h", "i">>,
               focus |-> "Single letter sounds",
               masteryRequirement |-> 90],
   level2 |-> [phonemes |-> <<"j", "k", "l", "m", "n", "o", "p", "q", "r">>,
               words |-> <<"cat", "dog", "run", "big", "hat">>,
               focus |-> "CVC words",
               masteryRequirement |-> 85],
   level3 |-> [phonemes |-> <<"s", "t", "u", "v", "w", "x", "y", "z">>,
               words |-> <<"bath", "ship", "thin">>,
               focus |-> "Consonant digraphs",
               masteryRequirement |-> 85]]

\* Object.values(OG_CURRICULUM): the levels in insertion order.
OGLevels == <<OG_CURRICULUM.level1, OG_CURRICULUM.level2, OG_CURRICULUM.level3>>

\* Faulty variant of LevelResolves: the index is truncated to a whole number
\* before the lookup.
LevelResolvesTruncating(args) ==
  /\ Has(args, "targetLevel")
  /\ args.targetLevel >= 10
  /\ (args.targetLevel - 10) \div 10 \in 0..(Len(OGLevels) - 1)

\* Object.values(OG_CURRICULUM)[targetLevel - 1] is an element of the array:
\* the index targetLevel - 1 (in tenths: t - 10) is a whole number inside it.
\* A missing targetLevel gives NaN, which indexes nothing.
LevelResolves(args) ==
  /\ Has(args, "targetLevel")
  /\ (args.targetLevel - 10) % 10 = 0
  /\ (args.targetLevel - 10) \div 10 \in 0..(Len(OGLevels) - 1)

LevelData(args) == OGLevels[((args.targetLevel - 10) \div 10) + 1]

modalities == <<"visual", "auditory", "kinesthetic", "tactile">>

\* modalities.filter(m => activityString.includes(m)).length
ModalityCount(activityString) ==
  Len(Filter(modalities, LAMBDA m : Includes(activityString, m)))

\* Faulty variant of IsMultisensory: one modality is enough.
IsMultisensoryAtLeastOne(activityString) == ModalityCount(activityString) >= 1

IsMultisensory(activityString) == ModalityCount(activityString) >= 2

\* Faulty variant of HasPhonemesFocus: a phoneme counts only as a whole JSON
\* string of the serialized activity.
HasPhonemesFocusWholeString(levelData, activityString) ==
  \E i \in 1..Len(levelData.phonemes) :
    Includes(activityString, "\"" \o ToLowerCase(levelData.phonemes[i]) \o "\"")

\* levelData.phonemes.some(p => activityString.includes(p.toLowerCase()))
HasPhonemesFocus(levelData, activityString) ==
  \E i \in 1..Len(levelData.phonemes) :
    Includes(activityString, ToLowerCase(levelData.phonemes[i]))

\* Faulty variant of MeetsLevel: || in place of &&.
MeetsLevelEither(isMultisensory, hasPhonemesFocus) == isMultisensory \/ hasPhonemesFocus

MeetsLevel(isMultisensory, hasPhonemesFocus) == isMultisensory /\ hasPhonemesFocus

Mark(b) == IF b THEN CHECK ELSE CROSS

validateOGActivity(args) ==
  IF ~LevelResolves(args)
  THEN TextResponse(
         CROSS \o " Invalid OG level: "
           \o (IF Has(args, "targetLevel") THEN NumberToString(args.targetLevel)
               ELSE "undefined")
           \o ". Must be 1-3.",
         [tool |-> "validate_og_activity", resolved |-> FALSE])
  ELSE IF ~Has(args, "activity")
  THEN Throw("TypeError", "Cannot read properties of undefined (reading 'toLowerCase')")
  ELSE
    LET targetLevel == NumberToString(args.targetLevel)
        levelData == LevelData(args)
        activityString == ToLowerCase(Stringify(args.activity, "", ""))
        isMultisensory == IsMultisensory(activityString)
        hasPhonemesFocus ==
          IF "phonemes" \in DOMAIN levelData
          THEN HasPhonemesFocus(levelData, activityString)
          ELSE FALSE
        issues ==
          (IF ~isMultisensory
           THEN <<"Activity should include multiple sensory modalities">>
           ELSE <<>>)
          \o (IF "phonemes" \in DOMAIN levelData /\ ~hasPhonemesFocus
              THEN <<"Activity should focus on level " \o targetLevel
                       \o " phonemes: " \o Join(levelData.phonemes, ", ")>>
              ELSE <<>>)
        recommendations ==
          IF ~isMultisensory
          THEN <<"Add visual, auditory, and kinesthetic elements">>
          ELSE <<>>
        validation ==
          [isSequential |-> TRUE,
           isMultisensory |-> isMultisensory,
           hasPhonemesFocus |-> hasPhonemesFocus,
           meetsLevel |-> MeetsLevel(isMultisensory, hasPhonemesFocus),
           issues |-> issues,
           recommendations |-> recommendations]
    IN TextResponse(
         "ORTON-GILLINGHAM ACTIVITY VALIDATION\n\nTarget Level: " \o targetLevel
           \o " - " \o levelData.focus \o "\n\n"
           \o (IF validation.meetsLevel
               THEN CHECK \o " OG COMPLIANT"
               ELSE CROSS \o " NEEDS IMPROVEMENT")
           \o "\n\nValidation Results:\n- Sequential: " \o Mark(validation.isSequential)
           \o "\n- Multisensory: " \o Mark(validation.isMultisensory)
           \o "\n- Phoneme Focus: " \o Mark(validation.hasPhonemesFocus)
           \o "\n\n"
           \o (IF Len(validation.issues) > 0
               THEN "Issues:\n"
                      \o Join(Map(validation.issues, LAMBDA i : "- " \o i), "\n")
                      \o "\n\nRecommendations:\n"
                      \o Join(Map(validation.recommendations, LAMBDA r : "- " \o r), "\n")
               ELSE "Activity meets OG standards!"),
         [tool |-> "validate_og_activity",
          resolved |-> TRUE,
          levelData |-> levelData,
          activityString |-> activityString,
          validation |-> validation])

-----------------------------------------------------------------------------
(* review_code_safety *)

\* Faulty variant of CodeFindings: the code is lower-cased before matching.
CodeFindingsLowerCased(code) ==
  LET lower == ToLowerCase(code)
  IN (IF Includes(lower, "fail") \/ Includes(lower, "error") \/ Includes(lower, "wrong")
      THEN <<[issue |-> "Code may contain failure states or negative language",
              recommendation |-> "Implement positive feedback loops instead of failure states"]>>
      ELSE <<>>)
     \o (IF Includes(lower, "timeout") \/ Includes(lower, "time limit")
         THEN <<[issue |-> "Time pressure detected - may cause stress",
                 recommendation |-> "Remove time limits or make them optional/invisible"]>>
         ELSE <<>>)
     \o (IF Includes(lower, "onclick") /\ ~Includes(lower, "aria-label")
         THEN <<[issue |-> "Interactive elements may lack accessibility labels",
                 recommendation |-> "Add aria-label attributes to all interactive elements"]>>
         ELSE <<>>)

\* The three issue checks of reviewCodeSafety, in order; each adds an issue
\* and its recommendation.
CodeFindings(code) ==
  (IF Includes(code, "fail") \/ Includes(code, "error") \/ Includes(code, "wrong")
   THEN <<[issue |-> "Code may contain failure states or negative language",
           recommendation |-> "Implement positive feedback loops instead of failure states"]>>
   ELSE <<>>)
  \o (IF Includes(code, "timeout") \/ Includes(code, "time limit")
      THEN <<[issue |-> "Time pressure detected - may cause stress",
              recommendation |-> "Remove time limits or make them optional/invisible"]>>
      ELSE <<>>)
  \o (IF Includes(code, "onClick") /\ ~Includes(code, "aria-label")
      THEN <<[issue |-> "Interactive elements may lack accessibility labels",
              recommendation |-> "Add aria-label attributes to all interactive elements"]>>
      ELSE <<>>)

HasPositiveReinforcement(code) ==
  Includes(code, "celebrate") \/ Includes(code, "great") \/ Includes(code, "nice work")

\* Faulty variant of IsCodeSafe: issues.length >= 0.
IsCodeSafeAlways(issues) == Len(issues) >= 0

IsCodeSafe(issues) == Len(issues) = 0

reviewCodeSafety(args) ==
  IF ~Has(args, "code")
  THEN Throw("TypeError", "Cannot read properties of undefined (reading 'includes')")
  ELSE
    LET code == args.code
        language == IF Has(args, "language") THEN args.language ELSE "typescript"
        findings == CodeFindings(code)
        issues == Map(findings, LAMBDA f : f.issue)
        recommendations ==
          Map(findings, LAMBDA f : f.recommendation)
            \o (IF ~HasPositiveReinforcement(code)
                THEN <<"Add positive reinforcement and celebration for user actions">>
                ELSE <<>>)
        isSafe == IsCodeSafe(issues)
    IN TextResponse(
         "TRAUMA-INFORMED CODE SAFETY REVIEW\n\n"
           \o (IF isSafe
               THEN CHECK \o " CODE IS TRAUMA-SAFE"
               ELSE WARN \o " SAFETY ISSUES DETECTED")
           \o "\n\n"
           \o (IF Len(issues) > 0
               THEN "Issues Found:\n"
                      \o Join(Map(issues, LAMBDA i : "- " \o i), "\n") \o "\n\n"
               ELSE "")
           \o "Recommendations:\n"
           \o Join(Map(recommendations, LAMBDA r : "- " \o r), "\n")
           \o "\n\nTrauma-Informed Coding Principles:\n- No failure states or negative feedback\n- Child maintains control and agency\n- Multiple pathways to success\n- Celebration of effort over accuracy\n- Stress detection and response\n- Accessibility for all learners",
         [tool |-> "review_code_safety",
          language |-> language,
          issues |-> issues,
          recommendations |-> recommendations,
          verdict |-> isSafe])

-----------------------------------------------------------------------------
(* generate_stress_protocol *)

protocols ==
  [behavioral |->
     [mild |->
        [detection |-> <<"Slower response times", "Repeated help requests", "Shorter responses">>,
         response |-> <<"Offer encouragement", "Provide gentle hints", "Show progress made">>,
         code |-> "\nif (responseTime > averageResponseTime * 1.5) {\n  showEncouragement(\"You're thinking carefully - that's great!\");\n  offerHint(currentChallenge);\n}"],
      moderate |->
        [detection |-> <<"Multiple wrong attempts", "Requesting to skip", "Visible frustration cues">>,
         response |-> <<"Switch to easier content", "Offer break", "Provide comfort">>,
         code |-> "\nif (consecutiveStruggles >= 3) {\n  switchToComfortMode();\n  showMessage(\"Let's try something fun together!\");\n  offerBreak();\n}"],
      high |->
        [detection |-> <<"Attempting to quit", "Silence after prompts", "Stress behaviors">>,
         response |-> <<"Immediate comfort mode", "Breathing exercises", "End session positively">>,
         code |-> "\nif (detectedHighStress()) {\n  immediateComfortMode();\n  showBreathingExercise();\n  celebrateWhatWasAccomplished();\n}"]],
   physiological |->
     [mild |->
        [detection |-> <<"HRV decrease 10-20%", "Heart rate increase 10-15%">>,
         response |-> <<"Gentle pacing adjustment", "Calming visual cues">>,
         code |-> "\nif (hrv < baseline * 0.8) {\n  adjustPacing(\"slower\");\n  showCalmingVisuals();\n}"],
      moderate |->
        [detection |-> <<"HRV decrease 20-30%", "Heart rate increase 15-25%">>,
         response |-> <<"Pause activity", "Breathing guidance", "Comfort content">>,
         code |-> "\nif (heartRate > baseline * 1.2) {\n  pauseCurrentActivity();\n  startBreathingGuide();\n  showComfortCharacter();\n}"],
      high |->
        [detection |-> <<"HRV decrease >30%", "Heart rate increase >25%">>,
         response |-> <<"Immediate stop", "Full comfort mode", "Recovery focus">>,
         code |-> "\nif (stressLevel === \"CRITICAL\") {\n  stopAllActivities();\n  activateFullComfortMode();\n  focusOnRecovery();\n  notifyParent();\n}"]]]

\* Property names every object literal inherits from Object.prototype; each
\* reads as a function or an object, never as undefined.
ObjectPrototypeKeys ==
  {"constructor", "toString", "toLocaleString", "valueOf", "hasOwnProperty",
   "isPrototypeOf", "propertyIsEnumerable", "__proto__"}

\* obj[key] on an object literal: an own property, else an inherited one,
\* else undefined.
GetProp(obj, key) ==
  IF key \in DOMAIN obj THEN [t |-> "own", v |-> obj[key]]
  ELSE IF key \in ObjectPrototypeKeys THEN [t |-> "inherited", name |-> key]
  ELSE [t |-> "undefined"]

\* protocols[triggerType]?.[severity]. A missing argument reads the key
\* "undefined", which no object has. An inherited member (a built-in function
\* or Object.prototype) has none of the keys used here as an own property and
\* inherits the Object.prototype names itself.
LookupProtocol(args) ==
  IF ~Has(args, "triggerType") THEN [t |-> "undefined"]
  ELSE
    LET table == GetProp(protocols, args.triggerType)
    IN IF table.t = "undefined" \/ ~Has(args, "severity") THEN [t |-> "undefined"]
       ELSE IF table.t = "own" THEN GetProp(table.v, args.severity)
       ELSE IF args.severity \in ObjectPrototypeKeys
            THEN [t |-> "inherited", name |-> args.severity]
            ELSE [t |-> "undefined"]

generateStressProtocol(args) ==
  LET found == LookupProtocol(args)
  IN IF found.t = "undefined"
     THEN TextResponse(
            CROSS \o " Invalid protocol parameters. TriggerType must be 'behavioral' or 'physiological', severity must be 'mild', 'moderate', or 'high'.",
            [tool |-> "generate_stress_protocol", found |-> FALSE])
     ELSE IF found.t = "inherited"
     THEN Throw("TypeError", "Cannot read properties of undefined (reading 'map')")
     ELSE
       LET protocol == found.v
       IN TextResponse(
            "STRESS DETECTION & RESPONSE PROTOCOL\n\nTrigger: " \o args.triggerType
              \o " (" \o args.severity \o ")\n\nDetection Indicators:\n"
              \o Join(Map(protocol.detection, LAMBDA d : "- " \o d), "\n")
              \o "\n\nResponse Actions:\n"
              \o Join(Map(protocol.response, LAMBDA r : "- " \o r), "\n")
              \o "\n\nImplementation Code:\n" \o FENCE \o "typescript" \o protocol.code
              \o "\n" \o FENCE \o "\n\nKey Principles:\n- Child safety is paramount\n- Recovery before continuation\n- Positive framing of all interventions\n- Parent notification for high-stress events\n- Learning from stress patterns to prevent future episodes",
            [tool |-> "generate_stress_protocol", found |-> TRUE, protocol |-> protocol])

-----------------------------------------------------------------------------
(* generate_engagement_activity *)

themes ==
  [dragons |-> [setting |-> "Ancient dragon linguistics academy",
                character |-> "Dragon language expert",
                motivation |-> "Decode ancient dragon communication patterns",
                language |-> "mystical, adventurous"],
   space |-> [setting |-> "Deep space communication center",
              character |-> "Alien linguistics specialist",
              motivation |-> "Establish first contact through sound patterns",
              language |-> "scientific, exploratory"],
   magic |-> [setting |-> "Academy of magical linguistics",
              character |-> "Spell-sound researcher",
              motivation |-> "Master sound frequencies for spell casting",
              language |-> "mystical, scholarly"],
   animals |-> [setting |-> "Wildlife communication research station",
                character |-> "Animal language expert",
                motivation |-> "Decode animal communication systems",
                language |-> "naturalistic, caring"],
   adventure |-> [setting |-> "Remote expedition base camp",
                  character |-> "Expedition leader",
                  motivation |-> "Navigate using ancient symbol systems",
                  language |-> "adventurous but mature"],
   mystery |-> [setting |-> "International detective agency",
                character |-> "Senior investigator partner",
                motivation |-> "Crack coded messages in ongoing cases",
                language |-> "professional, investigative"]]

\* Faulty variant of SelectedTheme: the table misses the 'mystery' entry.
SelectedThemeMissingEntry(args) ==
  IF Has(args, "theme") /\ args.theme # "mystery"
  THEN GetProp(themes, args.theme)
  ELSE [t |-> "undefined"]

\* Faulty variant of SelectedTheme: an absent theme falls back to 'space'.
SelectedThemeDefaultsToSpace(args) ==
  GetProp(themes, IF Has(args, "theme") THEN args.theme ELSE "space")

\* themes[theme as keyof typeof themes]
SelectedTheme(args) ==
  IF Has(args, "theme") THEN GetProp(themes, args.theme) ELSE [t |-> "undefined"]

\* Faulty variant of Complexity: only 'high' is told apart.
ComplexityHighOrRich(stressLevel) ==
  IF stressLevel = "high" THEN "simple" ELSE "rich"

\* stressLevel === 'high' ? 'simple' : stressLevel === 'medium' ? 'moderate' : 'rich'
Complexity(stressLevel) ==
  IF stressLevel = "high" THEN "simple"
  ELSE IF stressLevel = "medium" THEN "moderate"
  ELSE "rich"

\* activity.story. An inherited member read as the theme has none of the four
\* fields: they are undefined, and JSON.stringify leaves them out.
Story(selectedTheme, phoneme, complexity) ==
  LET own == selectedTheme.t = "own"
  IN JObj(
       (IF own THEN << <<"setting", JStr(selectedTheme.v.setting)>>,
                       <<"character", JStr(selectedTheme.v.character)>> >>
        ELSE <<>>)
       \o << <<"hook", JStr((IF own THEN selectedTheme.v.motivation ELSE "undefined")
                              \o " by analyzing the /" \o phoneme \o "/ sound frequency")>>,
             <<"complexity", JStr(complexity)>>,
             <<"ageAppropriate", JStr("Designed for 12-year-old with foundational skill needs")>> >>
       \o (IF own THEN << <<"languageStyle", JStr(selectedTheme.v.language)>> >> ELSE <<>>))

\* Faulty variant of Interactions: the input methods are not consulted.
InteractionsNone(phoneme, inputMethods) == JObj(<<>>)

\* activity.interactions: one sub-tree per supplied input method.
Interactions(phoneme, inputMethods) ==
  JObj(
    (IF ArrayIncludes(inputMethods, "touch")
     THEN <<<<"touch", JObj(<<
            <<"symbolTracing", JStr("Calibrate symbol recognition by tracing the /" \o phoneme \o "/ pattern")>>,
            <<"systemNavigation", JStr("Navigate interface elements to analyze communication data")>>,
            <<"patternMatching", JStr("Connect symbol fragments using precise touch coordination")>>,
            <<"frequencyTuning", JStr("Adjust audio frequencies through touch interface controls")>> >>)>>>>
     ELSE <<>>)
    \o (IF ArrayIncludes(inputMethods, "voice")
        THEN <<<<"voice", JObj(<<
               <<"frequencyAnalysis", JStr("Produce /" \o phoneme \o "/ sound to match detected frequency patterns")>>,
               <<"voiceAuthentication", JStr("Voice recognition system requires clear pronunciation")>>,
               <<"communicationProtocol", JStr("Establish contact using proper sound frequencies")>>,
               <<"audioTesting", JStr("Test voice clarity for communication system compatibility")>> >>)>>>>
        ELSE <<>>)
    \o (IF ArrayIncludes(inputMethods, "camera")
        THEN <<<<"camera", JObj(<<
               <<"symbolDocumentation", JStr("Document real-world examples of symbolic patterns")>>,
               <<"fieldResearch", JStr("Capture evidence of /" \o phoneme \o "/ symbols in environment")>>,
               <<"progressArchiving", JStr("Create visual record of decoding achievements")>>,
               <<"evidenceCollection", JStr("Photograph discoveries for case documentation")>> >>)>>>>
        ELSE <<>>)
    \o (IF ArrayIncludes(inputMethods, "microphone")
        THEN <<<<"microphone", JObj(<<
               <<"frequencyRecording", JStr("Record voice patterns for system analysis")>>,
               <<"audioCustomization", JStr("Personalize communication system voice settings")>>,
               <<"soundEngineering", JStr("Create audio profiles for different scenarios")>>,
               <<"breathingCalibration", JStr("Calibrate focus enhancement through breathing patterns")>> >>)>>>>
        ELSE <<>>)
    \o (IF ArrayIncludes(inputMethods, "bluetooth")
        THEN <<<<"bluetooth", JObj(<<
               <<"deviceSync", JStr("Connect with specialized learning devices")>>,
               <<"dataSharing", JStr("Share progress with research team")>>,
               <<"collaborativeMode", JStr("Work with other researchers remotely")>> >>)>>>>
        ELSE <<>>))

\* activity.engagement
Engagement ==
  JObj(<<
    <<"intrinsicMotivators", JArr(<<JStr("Curiosity about story outcome"),
                                    JStr("Helping character achieve goal"),
                                    JStr("Exploring new story elements"),
                                    JStr("Creating personalized content")>>)>>,
    <<"avoidedExtrinsics", JArr(<<JStr("No time pressure"),
                                  JStr("No scoring/grading"),
                                  JStr("No comparison to others"),
                                  JStr("No failure states")>>)>> >>)

\* activity.stressAdaptations
StressAdaptations ==
  JObj(<<
    <<"simplifiedInterface", JStr("Reduce cognitive load with cleaner interface design")>>,
    <<"mentorSupport", JStr("Expert mentor provides additional guidance and encouragement")>>,
    <<"focusEnhancement", JStr("Activate concentration support systems and calming protocols")>>,
    <<"autonomousControl", JStr("Full user control over pacing and session management")>> >>)

generateEngagementActivity(args) ==
  LET selectedTheme == SelectedTheme(args)
  IN IF selectedTheme.t = "undefined"
     THEN Throw("TypeError", "Cannot read properties of undefined (reading 'setting')")
     ELSE IF ~Has(args, "inputMethods")
     THEN Throw("TypeError", "Cannot read properties of undefined (reading 'includes')")
     ELSE
       LET phoneme == Interpolate(args, "phoneme")
           stressLevel == IF Has(args, "stressLevel") THEN args.stressLevel ELSE "low"
           complexity == Complexity(stressLevel)
           activity ==
             JObj(<< <<"story", Story(selectedTheme, phoneme, complexity)>>,
                     <<"interactions", Interactions(phoneme, args.inputMethods)>>,
                     <<"engagement", Engagement>> >>
                  \o (IF stressLevel = "high"
                      THEN << <<"stressAdaptations", StressAdaptations>> >>
                      ELSE <<>>))
       IN TextResponse(
            "AGE-APPROPRIATE ENGAGEMENT ACTIVITY (Age 12, Foundational Skills)\n\nPhoneme: /"
              \o phoneme \o "/\nTheme: " \o Interpolate(args, "theme") \o "\nStress Level: " \o stressLevel
              \o "\n\nStory Framework:\n" \o Stringify(activity.members[1][2], "  ", "")
              \o "\n\nAge-Appropriate Interactions:\n" \o Stringify(activity.members[2][2], "  ", "")
              \o "\n\nEngagement Strategy:\n" \o Stringify(activity.members[3][2], "  ", "")
              \o "\n\n"
              \o (IF stressLevel = "high"
                  THEN "Stress Adaptations:\n" \o Stringify(activity.members[4][2], "  ", "") \o "\n\n"
                  ELSE "")
              \o "DIGNITY-PRESERVING DESIGN:\n- Language treats user as capable young adult\n- Context provides sophisticated framework for basic skills\n- Visual design avoids childish aesthetics\n- Peer interaction safe (looks like advanced training)\n- Self-concept protected through expert apprentice role\n\nDEVELOPMENTAL APPROPRIATENESS:\n- Acknowledges 12-year-old cognitive abilities\n- Respects emotional maturity needs  \n- Provides foundation skills without shame\n- Maintains social dignity with peers/family\n- Future-oriented (builds toward advanced abilities)",
            [tool |-> "generate_engagement_activity",
             selectedTheme |-> selectedTheme,
             complexity |-> complexity,
             activity |-> activity])

-----------------------------------------------------------------------------
(* validate_engagement_safety *)

redFlags ==
  <<"score", "points", "leaderboard", "competition", "timer", "deadline",
    "fail", "lose", "wrong", "mistake", "try again", "beat", "win",
    "achievement", "badge", "unlock", "earn", "reward points">>

safeAlternatives ==
  <<"progress", "growth", "discovery", "exploration", "help", "support",
    "learn", "practice", "try", "explore", "discover", "create">>

\* Faulty variant of RedFlagIssues: the scan stops at the first red flag found.
RedFlagIssuesFirstOnly(mechanicLower) ==
  LET found == Filter(redFlags, LAMBDA flag : Includes(mechanicLower, flag))
  IN Map(SubSeq(found, 1, IF Len(found) > 0 THEN 1 ELSE 0),
         LAMBDA flag : "Contains potentially pressuring element: \"" \o flag \o "\"")

\* redFlags.forEach(...): one issue per red flag found, in table order.
RedFlagIssues(mechanicLower) ==
  Map(Filter(redFlags, LAMBDA flag : Includes(mechanicLower, flag)),
      LAMBDA flag : "Contains potentially pressuring element: \"" \o flag \o "\"")

\* The extrinsic-reward, comparison and time-pressure checks, in order; each
\* adds an issue and its recommendation.
FamilyFindings(mechanicLower) ==
  (IF Includes(mechanicLower, "reward") \/ Includes(mechanicLower, "prize")
   THEN <<[issue |-> "Uses extrinsic rewards which may undermine intrinsic motivation",
           recommendation |-> "Focus on intrinsic motivators: curiosity, mastery, autonomy, purpose"]>>
   ELSE <<>>)
  \o (IF Includes(mechanicLower, "compare") \/ Includes(mechanicLower, "better than")
      THEN <<[issue |-> "Includes comparison which can trigger shame in struggling readers",
              recommendation |-> "Focus on individual growth and personal achievement"]>>
      ELSE <<>>)
  \o (IF Includes(mechanicLower, "time") \/ Includes(mechanicLower, "speed")
           \/ Includes(mechanicLower, "fast")
      THEN <<[issue |-> "May create time pressure which causes stress in dyslexic learners",
              recommendation |-> "Remove time elements or make them invisible/optional"]>>
      ELSE <<>>)

\* Faulty variant of PositiveRecommendations: the suggestions are always added.
PositiveRecommendationsAlways(issues) ==
  <<"Consider adding story elements that create emotional investment",
    "Ensure child has agency and control over the experience",
    "Connect to helping others or solving meaningful problems">>

\* if (issues.length === 0) { recommendations.push(...) x3 }
PositiveRecommendations(issues) ==
  IF Len(issues) = 0
  THEN <<"Consider adding story elements that create emotional investment",
         "Ensure child has agency and control over the experience",
         "Connect to helping others or solving meaningful problems">>
  ELSE <<>>

IsEngagementSafe(issues) == Len(issues) = 0

validateEngagementSafety(args) ==
  IF ~Has(args, "mechanic")
  THEN Throw("TypeError", "Cannot read properties of undefined (reading 'toLowerCase')")
  ELSE
    LET mechanic == args.mechanic
        context == IF Has(args, "context") THEN args.context ELSE ""
        mechanicLower == ToLowerCase(mechanic)
        findings == FamilyFindings(mechanicLower)
        issues == RedFlagIssues(mechanicLower) \o Map(findings, LAMBDA f : f.issue)
        recommendations ==
          Map(findings, LAMBDA f : f.recommendation) \o PositiveRecommendations(issues)
        isSafe == IsEngagementSafe(issues)
    IN TextResponse(
         "ENGAGEMENT SAFETY VALIDATION\n\nMechanic: \"" \o mechanic
           \o "\"\nContext: " \o context \o "\n\n"
           \o (IF isSafe
               THEN CHECK \o " TRAUMA-SAFE ENGAGEMENT"
               ELSE WARN \o " POTENTIAL ISSUES DETECTED")
           \o "\n\n"
           \o (IF Len(issues) > 0
               THEN "Issues Found:\n"
                      \o Join(Map(issues, LAMBDA i : "- " \o i), "\n") \o "\n\n"
               ELSE "")
           \o "Recommendations:\n"
           \o Join(Map(recommendations, LAMBDA r : "- " \o r), "\n")
           \o "\n\nSafe Engagement Principles:\n- Intrinsic motivation (curiosity, mastery, purpose)\n- Child agency and control\n- No performance pressure or comparison\n- Story-driven emotional investment\n- Multiple pathways to success\n- Celebration of effort over accuracy\n\nTrauma-Informed Alternatives:\n"
           \o Join(Map(safeAlternatives,
                       LAMBDA alt : "- Use \"" \o alt \o "\" instead of pressure-based language"),
                   "\n"),
         [tool |-> "validate_engagement_safety",
          issues |-> issues,
          recommendations |-> recommendations,
          verdict |-> isSafe])

-----------------------------------------------------------------------------
(* The dispatcher *)

ToolNames ==
  {"generate_dyslexia_ui", "review_trauma_content", "validate_og_activity",
   "generate_phoneme_activity", "review_code_safety", "generate_stress_protocol",
   "generate_engagement_activity", "validate_engagement_safety"}

\* The CallToolRequestSchema handler: switch (name) { ... }
CallTool(name, args) ==
  CASE name = "generate_dyslexia_ui" -> generateDyslexiaUI(args)
    [] name = "review_trauma_content" -> reviewTraumaContent(args)
    [] name = "validate_og_activity" -> validateOGActivity(args)
    [] name = "generate_phoneme_activity" -> generatePhonemeActivity(args)
    [] name = "review_code_safety" -> reviewCodeSafety(args)
    [] name = "generate_stress_protocol" -> generateStressProtocol(args)
    [] name = "generate_engagement_activity" -> generateEngagementActivity(args)
    [] name = "validate_engagement_safety" -> validateEngagementSafety(args)
    [] OTHER -> Throw("Error", "Unknown tool: " \o name)

-----------------------------------------------------------------------------
(* Inputs *)

\* Every text of 1..MaxWords words of the vocabulary, joined by blanks.
Phrases(vocab) ==
  {Join(ws, " ") : ws \in UNION {[1..n -> vocab] : n \in 1..MaxWords}}

\* Every array of at most n elements of the set.
Arrays(set, n) == UNION {[1..k -> set] : k \in 0..n}

ContentVocab ==
  {"wrong", "Try again", "NO", "know", "you", "should", "MUST", "have", "to",
   "practice", "Mistake"}

Contents ==
  Phrases(ContentVocab)
    \cup {"You got that wrong! Try again.", "Let's practice this sound together.",
          "That's not right", "You need to focus", "Required reading"}

Contexts == {"feedback message", "You must not fail"}

ReviewTraumaArgs ==
  {[content |-> c] : c \in Contents}
    \cup {[content |-> c, context |-> x] :
            c \in {"You got that wrong! Try again.", "Let's practice this sound together."},
            x \in Contexts}
    \cup {[context |-> x] : x \in Contexts}
    \cup {<<>>}

ComponentTypes == {"button", "text", "input", "card"}
Intents == {"primary", "secondary", "comfort", "celebration"}
UIContents == {"Practice Sounds", "Start"}

UIArgs ==
  {[componentType |-> c, content |-> x] : c \in ComponentTypes, x \in UIContents}
    \cup {[componentType |-> c, content |-> x, intent |-> i] :
            c \in ComponentTypes \cup {"banner"}, x \in UIContents,
            i \in Intents \cup {"urgent"}}
    \cup {[content |-> x] : x \in UIContents}
    \cup {[componentType |-> c] : c \in ComponentTypes}
    \cup {<<>>}

\* Target levels in tenths: the whole numbers -1..MaxTargetLevel and some
\* fractions.
TargetLevels == {10 * k : k \in (0 - 1)..MaxTargetLevel} \cup {5, 15, 35}

ActivityKeys == {"k", "id", "Visual"}
ActivityValues == {"auditory", "TACTILE", "z", "bad", "\tactile"}

KeySeqs(n) ==
  {ks \in [1..n -> ActivityKeys] : \A i, j \in 1..n : i # j => ks[i] # ks[j]}

\* Flat objects of at most MaxMembers string members, and one nested sample.
Activities ==
  UNION {{JObj([i \in 1..n |-> <<ks[i], JStr(vs[i])>>]) :
            ks \in KeySeqs(n), vs \in [1..n -> ActivityValues]} : n \in 0..MaxMembers}
    \cup {JObj(<< <<"name", JStr("Letter hunt")>>,
                  <<"steps", JArr(<<JObj(<< <<"mode", JStr("Visual")>> >>),
                                    JStr("say it: Auditory")>>)>>,
                  <<"minutes", JNum(50)>> >>)}

SampleActivities ==
  {JObj(<<>>), JObj(<< <<"Visual", JStr("auditory")>> >>)}

OGArgs ==
  {[activity |-> a, targetLevel |-> t] :
     a \in Activities, t \in {u \in TargetLevels : u \in {10, 20, 30}}}
    \cup {[activity |-> a, targetLevel |-> t] : a \in SampleActivities, t \in TargetLevels}
    \cup {[activity |-> a] : a \in SampleActivities}
    \cup {[targetLevel |-> t] : t \in TargetLevels}
    \cup {<<>>}

Phonemes == {"a", "sh"}
Modalities == {"visual", "auditory", "kinesthetic", "tactile"}

PhonemeArgs ==
  {[phoneme |-> p, modalities |-> m] :
     p \in Phonemes,
     m \in Arrays(Modalities, MaxMethods) \cup {<<"visual", "auditory", "kinesthetic">>}}
    \cup {[phoneme |-> "a", modalities |-> m] :
            m \in {<<"smell">>, <<"Visual", "tactile">>, <<"tactile", "tactile", "visual">>}}
    \cup {[modalities |-> m] : m \in {<<>>, <<"visual">>, <<"tactile">>}}
    \cup {[phoneme |-> p] : p \in Phonemes}
    \cup {<<>>}

CodeVocab ==
  {"fail", "FAIL", "Error", "wrong", "timeout", "time", "limit", "onClick",
   "aria-label", "celebrate", "render"}

Codes == Phrases(CodeVocab) \cup {"nice work"}

CodeArgs ==
  {[code |-> c] : c \in Codes}
    \cup {[code |-> c, language |-> l] :
            c \in {"fail", "render", "onClick"},
            l \in {"javascript", "python", "fail onClick"}}
    \cup {[language |-> "javascript"], <<>>}

TriggerTypes == {"behavioral", "physiological", "performance"}
Severities == {"mild", "moderate", "high"}

StressArgs ==
  {[triggerType |-> t, severity |-> v] :
     t \in TriggerTypes \cup {"cognitive", "constructor"},
     v \in Severities \cup {"extreme", "MILD", "", "constructor", "toString"}}
    \cup {[triggerType |-> t] : t \in TriggerTypes}
    \cup {[severity |-> v] : v \in Severities}
    \cup {<<>>}

Themes == {"dragons", "space", "magic", "animals", "adventure", "mystery"}
StressLevels == {"low", "medium", "high"}
InputMethods == {"touch", "voice", "camera", "microphone", "bluetooth"}

EngagementArgs ==
  {[phoneme |-> "sh", theme |-> th, inputMethods |-> m] :
     th \in Themes \cup {"unicorns", "constructor"},
     m \in {<<>>, <<"touch", "voice">>}}
    \cup {[phoneme |-> "sh", theme |-> th, inputMethods |-> m, stressLevel |-> l] :
            th \in Themes,
            m \in {<<"voice">>, <<"touch", "camera", "microphone", "bluetooth">>},
            l \in StressLevels \cup {"HIGH"}}
    \cup {[phoneme |-> p, theme |-> "space", inputMethods |-> m, stressLevel |-> l] :
            p \in Phonemes, m \in Arrays(InputMethods, MaxMethods), l \in {"low", "high"}}
    \cup {[theme |-> "space", inputMethods |-> <<"touch">>],
          [phoneme |-> "a", inputMethods |-> <<"touch">>],
          [phoneme |-> "a", theme |-> "space"],
          <<>>}

MechanicVocab ==
  {"Timer", "leaderboard", "scoring", "reward", "points", "prize", "compare",
   "better", "than", "fast", "story", "learn", "WIN"}

Mechanics ==
  Phrases(MechanicVocab)
    \cup {"Timer-based challenges with leaderboard scoring",
          "Collaborative story building"}

SafetyArgs ==
  {[mechanic |-> m] : m \in Mechanics}
    \cup {[mechanic |-> m, context |-> x] :
            m \in {"Timer-based challenges with leaderboard scoring",
                   "Collaborative story building"},
            x \in {"phoneme practice game", "timer reward"}}
    \cup {[context |-> "phoneme practice game"], <<>>}

UnknownNames ==
  {"", "review_trauma", "REVIEW_TRAUMA_CONTENT", "tools/list", "constructor"}

ArgsOf(name) ==
  CASE name = "generate_dyslexia_ui" -> UIArgs
    [] name = "review_trauma_content" -> ReviewTraumaArgs
    [] name = "validate_og_activity" -> OGArgs
    [] name = "generate_phoneme_activity" -> PhonemeArgs
    [] name = "review_code_safety" -> CodeArgs
    [] name = "generate_stress_protocol" -> StressArgs
    [] name = "generate_engagement_activity" -> EngagementArgs
    [] name = "validate_engagement_safety" -> SafetyArgs
    [] OTHER -> {<<>>, [content |-> "Start"]}

-----------------------------------------------------------------------------
(* The server: receive a tools/call request, run the handler, reply *)

NoRequest == [kind |-> "none"]
NoResponse == [kind |-> "none"]
NoLocals == [none |-> TRUE]

\* The module-level tables, as they are after the module is loaded. (The
\* protocols and themes tables are locals of their handlers, built anew by
\* every call.)
StaticTables ==
  [TRAUMA_INFORMED_PRINCIPLES |-> TRAUMA_INFORMED_PRINCIPLES,
   OG_CURRICULUM |-> OG_CURRICULUM]

Init ==
  /\ pc = "idle"
  /\ request = NoRequest
  /\ response = NoResponse
  /\ locals = NoLocals
  /\ tables = StaticTables
  /\ inbox = {}
  /\ log = {}

\* The transport delivers a tools/call request.
Receive ==
  /\ pc = "idle"
  /\ \E name \in ToolNames \cup UnknownNames :
       \E args \in ArgsOf(name) :
         request' = [kind |-> "call", name |-> name, arguments |-> args]
  /\ pc' = "handling"
  /\ UNCHANGED <<response, locals, tables, inbox, log>>

\* The request handler runs to completion: a result, or a protocol error.
Handle ==
  /\ pc = "handling"
  /\ LET out == CallTool(request.name, request.arguments)
     IN /\ response' = IF out.kind = "return"
                       THEN [kind |-> "result", content |-> out.value.content]
                       ELSE [kind |-> "error", error |-> out.error]
        /\ locals' = out.locals
  /\ pc' = "done"
  /\ UNCHANGED <<request, tables, inbox, log>>

\* The reply is written to the transport; the server awaits the next request.
Send ==
  /\ pc = "done"
  /\ pc' = "idle"
  /\ request' = NoRequest
  /\ response' = NoResponse
  /\ locals' = NoLocals
  /\ UNCHANGED <<tables, inbox, log>>

Next == Receive \/ Handle \/ Send

Spec == Init /\ [][Next]_vars

-----------------------------------------------------------------------------
(* The server under pipelined requests: several requests wait in the        *)
(* transport, each handler runs to completion (no handler awaits), and the   *)
(* log keeps what every completed call answered.                             *)

\* The calls of a session.
PipelineCalls ==
  {[name |-> "review_trauma_content",
    arguments |-> [content |-> "You got that wrong! Try again."]],
   [name |-> "review_trauma_content",
    arguments |-> [content |-> "Let's practice this sound together."]],
   [name |-> "review_trauma_content", arguments |-> <<>>],
   [name |-> "validate_og_activity",
    arguments |-> [activity |-> JObj(<< <<"Visual", JStr("auditory")>> >>),
                   targetLevel |-> 10]],
   [name |-> "generate_stress_protocol",
    arguments |-> [triggerType |-> "behavioral", severity |-> "mild"]],
   [name |-> "generate_engagement_activity",
    arguments |-> [phoneme |-> "sh", theme |-> "space", inputMethods |-> <<"voice">>]],
   [name |-> "tools/list", arguments |-> <<>>]}

\* The transport delivers a tools/call request while others may be waiting.
Arrive ==
  /\ Cardinality(inbox) < MaxPending
  /\ \E call \in PipelineCalls \ inbox : inbox' = inbox \cup {call}
  /\ UNCHANGED <<pc, request, response, locals, tables, log>>

\* The request handler runs to completion on one waiting request and the
\* reply is written; no handler assigns to a module-level table.
Dispatch ==
  /\ \E call \in inbox :
       LET out == CallTool(call.name, call.arguments)
           reply == IF out.kind = "return"
                    THEN [kind |-> "result", content |-> out.value.content]
                    ELSE [kind |-> "error", error |-> out.error]
       IN /\ log' = log \cup {[name |-> call.name,
                                arguments |-> call.arguments,
                                response |-> reply]}
          /\ inbox' = inbox \ {call}
  /\ UNCHANGED <<pc, request, response, locals, tables>>

NextPipeline == Arrive \/ Dispatch

SpecPipeline == Init /\ [][NextPipeline]_vars

-----------------------------------------------------------------------------
(* The declared input schemas (setupTools) *)

\* args supplies the tool's required fields, with every enumerated field
\* inside its declared enum.
InputSchemaAccepts(name, args) ==
  CASE name = "generate_dyslexia_ui" ->
         /\ {"componentType", "content"} \subseteq DOMAIN args
         /\ args.componentType \in ComponentTypes
         /\ Has(args, "intent") => args.intent \in Intents
    [] name = "review_trauma_content" -> Has(args, "content")
    [] name = "validate_og_activity" -> {"activity", "targetLevel"} \subseteq DOMAIN args
    [] name = "generate_phoneme_activity" ->
         /\ {"phoneme", "modalities"} \subseteq DOMAIN args
         /\ \A i \in 1..Len(args.modalities) : args.modalities[i] \in Modalities
    [] name = "review_code_safety" -> Has(args, "code")
    [] name = "generate_stress_protocol" ->
         /\ {"triggerType", "severity"} \subseteq DOMAIN args
         /\ args.triggerType \in TriggerTypes
         /\ args.severity \in Severities
    [] name = "generate_engagement_activity" ->
         /\ {"phoneme", "theme", "inputMethods"} \subseteq DOMAIN args
         /\ args.theme \in Themes
         /\ \A i \in 1..Len(args.inputMethods) : args.inputMethods[i] \in InputMethods
         /\ Has(args, "stressLevel") => args.stressLevel \in StressLevels
    [] name = "validate_engagement_safety" -> Has(args, "mechanic")
    [] OTHER -> FALSE

\* The required array of the tool's input schema.
Required(name) ==
  CASE name = "generate_dyslexia_ui" -> {"componentType", "content"}
    [] name = "review_trauma_content" -> {"content"}
    [] name = "validate_og_activity" -> {"activity", "targetLevel"}
    [] name = "generate_phoneme_activity" -> {"phoneme", "modalities"}
    [] name = "review_code_safety" -> {"code"}
    [] name = "generate_stress_protocol" -> {"triggerType", "severity"}
    [] name = "generate_engagement_activity" -> {"phoneme", "theme", "inputMethods"}
    [] name = "validate_engagement_safety" -> {"mechanic"}
    [] OTHER -> {}

-----------------------------------------------------------------------------
(* Vocabulary of the properties *)

\* The handler of the named tool has run on the current request.
Called(name) == pc = "done" /\ request.name = name

\* The call ended in a normal result (not in a protocol error).
Returned == response.kind = "result"

\* The text of the first content block of the result.
Text == response.content[1].text

Arg(key) == request.arguments[key]

StartsWith(s, p) == Len(s) >= Len(p) /\ SubSeq(s, 1, Len(p)) = p

\* x is an element of the sequence.
Lists(seq, x) == \E i \in 1..Len(seq) : seq[i] = x

-----------------------------------------------------------------------------
(* C1 - dispatch *)

\* C1 (as stated): a tool identifier outside the eight names raises
\* 'Unknown tool' and yields no text response; each of the eight names runs
\* its own handler and never raises 'Unknown tool'; and 'Unknown tool' is the
\* only failure that reaches the client as a protocol-level error.
C1_UnknownToolIsTheOnlyProtocolError ==
  pc = "done" =>
    /\ request.name \notin ToolNames =>
         /\ response.kind = "error"
         /\ response.error.message = "Unknown tool: " \o request.name
    /\ request.name \in ToolNames =>
         /\ response.kind = "error" =>
              ~StartsWith(response.error.message, "Unknown tool")
         /\ Returned => locals.tool = request.name
    /\ response.kind = "error" => StartsWith(response.error.message, "Unknown tool")

-----------------------------------------------------------------------------
(* C2 - review_trauma_content reports every avoid phrase *)

TriggeringIssue(phrase) == "Contains potentially triggering word: \"" \o phrase \o "\""

\* The avoid phrases that occur in the content, compared without case.
AvoidHits(content) ==
  {i \in 1..Len(TRAUMA_INFORMED_PRINCIPLES.avoid) :
     Includes(ToLowerCase(content), ToLowerCase(TRAUMA_INFORMED_PRINCIPLES.avoid[i]))}

PressureHit(content) ==
  \E w \in {"must", "should", "have to", "need to", "required"} :
    Includes(ToLowerCase(content), w)

\* C2: for every content string, each avoid phrase that occurs in it as a
\* case-insensitive substring makes the review non-compliant with an issue
\* citing that phrase; content with no avoid phrase and no pressure word is
\* reported compliant with no issues.
C2_AvoidPhrasesReported ==
  (Called("review_trauma_content") /\ Has(request.arguments, "content")) =>
    /\ Returned
    /\ \A i \in AvoidHits(Arg("content")) :
         /\ ~locals.verdict
         /\ Lists(locals.issues, TriggeringIssue(TRAUMA_INFORMED_PRINCIPLES.avoid[i]))
         /\ Includes(Text, CROSS \o " ISSUES DETECTED")
         /\ Includes(Text, "- " \o TriggeringIssue(TRAUMA_INFORMED_PRINCIPLES.avoid[i]) )
    /\ (AvoidHits(Arg("content")) = {} /\ ~PressureHit(Arg("content"))) =>
         /\ locals.verdict
         /\ locals.issues = <<>>
         /\ Includes(Text, CHECK \o " TRAUMA-INFORMED COMPLIANT")
         /\ Includes(Text, "No trauma-informed issues detected.")

\* An avoid phrase written in capitals was found and cited.
C2_Witness ==
  /\ Called("review_trauma_content")
  /\ Has(request.arguments, "content")
  /\ Includes(Arg("content"), "NO")
  /\ ~Includes(Arg("content"), "no")
  /\ Returned
  /\ ~locals.verdict
  /\ Lists(locals.issues, TriggeringIssue("no"))

-----------------------------------------------------------------------------
(* C3 - verdict = no issues *)

ReviewTools == {"review_trauma_content", "validate_engagement_safety", "review_code_safety"}

CompliantMarker(name) ==
  CASE name = "review_trauma_content" -> CHECK \o " TRAUMA-INFORMED COMPLIANT"
    [] name = "validate_engagement_safety" -> CHECK \o " TRAUMA-SAFE ENGAGEMENT"
    [] name = "review_code_safety" -> CHECK \o " CODE IS TRAUMA-SAFE"

IssuesMarker(name) ==
  CASE name = "review_trauma_content" -> CROSS \o " ISSUES DETECTED"
    [] name = "validate_engagement_safety" -> WARN \o " POTENTIAL ISSUES DETECTED"
    [] name = "review_code_safety" -> WARN \o " SAFETY ISSUES DETECTED"

IssuesHeading(name) ==
  IF name = "review_trauma_content" THEN "\nIssues:\n- " ELSE "\nIssues Found:\n- "

\* C3: in every result of the three review tools the verdict is true exactly
\* when the issues list is empty; the compliant marker is never shown with an
\* issue, and the issues-detected marker never with an empty issues list.
C3_VerdictIffNoIssues ==
  (pc = "done" /\ request.name \in ReviewTools /\ Returned) =>
    /\ locals.verdict <=> (Len(locals.issues) = 0)
    /\ Includes(Text, CompliantMarker(request.name)) <=> (Len(locals.issues) = 0)
    /\ Includes(Text, IssuesMarker(request.name)) <=> (Len(locals.issues) > 0)
    /\ Includes(Text, IssuesHeading(request.name)) <=> (Len(locals.issues) > 0)
    /\ \A i \in 1..Len(locals.issues) : Includes(Text, "\n- " \o locals.issues[i])

\* A code review with an issue shows the issues-detected marker.
C3_Witness ==
  /\ Called("review_code_safety")
  /\ Returned
  /\ Len(locals.issues) > 0
  /\ ~locals.verdict
  /\ Includes(Text, WARN \o " SAFETY ISSUES DETECTED")

-----------------------------------------------------------------------------
(* C4 - one text block *)

\* C4: for each of the eight tools, every arguments object that supplies the
\* required fields with values inside the declared schema domains gets a
\* result whose content is exactly one block, of type text; the gracefully
\* handled invalid cases (out-of-range level, unpopulated trigger/severity
\* pair) included.
C4_ExactlyOneTextBlock ==
  (pc = "done" /\ InputSchemaAccepts(request.name, request.arguments)) =>
    /\ Returned
    /\ Len(response.content) = 1
    /\ DOMAIN response.content[1] = {"type", "text"}
    /\ response.content[1].type = "text"
    /\ Len(response.content[1].text) > 0

\* A gracefully handled invalid case: the unpopulated 'performance' table.
C4_Witness ==
  /\ Called("generate_stress_protocol")
  /\ InputSchemaAccepts(request.name, request.arguments)
  /\ Arg("triggerType") = "performance"
  /\ Returned
  /\ Len(response.content) = 1
  /\ StartsWith(Text, CROSS)

-----------------------------------------------------------------------------
(* C5 - generate_stress_protocol *)

\* C5 (as stated): behavioral / physiological with mild / moderate / high
\* gives a populated protocol with non-empty detection and response
\* sequences; 'performance' with any severity, and any severity outside
\* mild / moderate / high, gives a text response that begins with the failure
\* marker and carries the invalid-parameters message, never a protocol error.
C5_ProtocolOrInvalidParameters ==
  (Called("generate_stress_protocol")
     /\ {"triggerType", "severity"} \subseteq DOMAIN request.arguments) =>
    /\ (Arg("triggerType") \in {"behavioral", "physiological"}
          /\ Arg("severity") \in {"mild", "moderate", "high"}) =>
         /\ Returned
         /\ locals.found
         /\ Len(locals.protocol.detection) > 0
         /\ Len(locals.protocol.response) > 0
         /\ StartsWith(Text, "STRESS DETECTION & RESPONSE PROTOCOL")
    /\ (Arg("triggerType") = "performance"
          \/ Arg("severity") \notin {"mild", "moderate", "high"}) =>
         /\ Returned
         /\ StartsWith(Text, CROSS \o " Invalid protocol parameters.")

-----------------------------------------------------------------------------
(* C6, C7 - validate_og_activity target level *)

\* The target levels (in tenths) the curriculum defines: level1..level3.
DefinedLevels == {10, 20, 30}

C7_LevelsOneToFiveAccepted ==
  (Called("validate_og_activity")
     /\ {"activity", "targetLevel"} \subseteq DOMAIN request.arguments
     /\ Arg("targetLevel") \in {10, 20, 30, 40, 50}) =>
    /\ Returned
    /\ locals.resolved
    /\ StartsWith(Text, "ORTON-GILLINGHAM ACTIVITY VALIDATION")
    /\ ~Includes(Text, "Invalid OG level")

-----------------------------------------------------------------------------
(* C8, C9 - validate_og_activity criteria *)

\* The request was validated against a resolved level.
Validated ==
  /\ Called("validate_og_activity")
  /\ Returned
  /\ locals.resolved

\* The lower-cased serialized activity of the request.
Serialized == ToLowerCase(Stringify(Arg("activity"), "", ""))

\* How many of the four modality names occur in the text.
ModalityNamesIn(text) ==
  Cardinality({m \in {"visual", "auditory", "kinesthetic", "tactile"} : Includes(text, m)})

MultisensoryIssue == "Activity should include multiple sensory modalities"

\* C8: with a valid level, isMultisensory is true exactly when at least two
\* of the four modality names occur in the lower-cased serialized activity;
\* one or none gives false and adds the multiple-modalities issue.
C8_MultisensoryIffTwoModalities ==
  Validated =>
    /\ locals.validation.isMultisensory <=> (ModalityNamesIn(Serialized) >= 2)
    /\ ModalityNamesIn(Serialized) <= 1 =>
         /\ ~locals.validation.isMultisensory
         /\ Lists(locals.validation.issues, MultisensoryIssue)
         /\ Includes(Text, "- Multisensory: " \o CROSS)
         /\ Includes(Text, "\n- " \o MultisensoryIssue)
    /\ ModalityNamesIn(Serialized) >= 2 =>
         /\ locals.validation.isMultisensory
         /\ ~Lists(locals.validation.issues, MultisensoryIssue)
         /\ Includes(Text, "- Multisensory: " \o CHECK)

\* Exactly one modality name occurs: not multisensory.
C8_Witness ==
  /\ Validated
  /\ ModalityNamesIn(Serialized) = 1
  /\ ~locals.validation.isMultisensory
  /\ Lists(locals.validation.issues, MultisensoryIssue)

\* Some phoneme of the resolved level occurs in the text.
PhonemeIn(text) ==
  \E k \in 1..3 :
    /\ Arg("targetLevel") = 10 * k
    /\ \E i \in 1..Len(OGLevels[k].phonemes) : Includes(text, OGLevels[k].phonemes[i])

\* C9: with a valid level, hasPhonemesFocus is true exactly when a phoneme of
\* the resolved level occurs in the flattened lower-cased activity text, and
\* meetsLevel = isMultisensory AND hasPhonemesFocus; an activity with none of
\* the level's phonemes gets hasPhonemesFocus = false and meetsLevel = false.
C9_PhonemeFocusAndMeetsLevel ==
  Validated =>
    /\ locals.validation.hasPhonemesFocus <=> PhonemeIn(Serialized)
    /\ locals.validation.meetsLevel <=>
         (locals.validation.isMultisensory /\ locals.validation.hasPhonemesFocus)
    /\ ~PhonemeIn(Serialized) =>
         /\ ~locals.validation.hasPhonemesFocus
         /\ ~locals.validation.meetsLevel
         /\ Includes(Text, "- Phoneme Focus: " \o CROSS)
         /\ Includes(Text, CROSS \o " NEEDS IMPROVEMENT")
    /\ Includes(Text, CHECK \o " OG COMPLIANT") <=>
         (ModalityNamesIn(Serialized) >= 2 /\ PhonemeIn(Serialized))

\* A non-empty activity without any phoneme of its level.
C9_Witness ==
  /\ Validated
  /\ Len(Arg("activity").members) > 0
  /\ ~PhonemeIn(Serialized)
  /\ ~locals.validation.hasPhonemesFocus
  /\ ~locals.validation.meetsLevel

-----------------------------------------------------------------------------
(* C10 - validate_engagement_safety issues *)

PressuringIssue(flag) == "Contains potentially pressuring element: \"" \o flag \o "\""

\* Positions in the red-flag table of the phrases occurring in the text.
RedFlagHits(text) == {i \in 1..Len(redFlags) : Includes(text, redFlags[i])}

AnyOf(text, phrases) == \E ph \in phrases : Includes(text, ph)

\* The family issues due for the text, in the fixed order.
FamilyIssuesDue(text) ==
  (IF AnyOf(text, {"reward", "prize"})
   THEN <<"Uses extrinsic rewards which may undermine intrinsic motivation">> ELSE <<>>)
  \o (IF AnyOf(text, {"compare", "better than"})
      THEN <<"Includes comparison which can trigger shame in struggling readers">> ELSE <<>>)
  \o (IF AnyOf(text, {"time", "speed", "fast"})
      THEN <<"May create time pressure which causes stress in dyslexic learners">> ELSE <<>>)

\* C10: exactly one red-flag issue for each red-flag phrase occurring in the
\* lower-cased mechanic, in table order, then at most one issue each for the
\* extrinsic-reward, comparison and time-pressure families in that order; a
\* mechanic mentioning a timer and a leaderboard gets at least two red-flag
\* issues.
C10_RedFlagsThenFamilies ==
  (Called("validate_engagement_safety") /\ Has(request.arguments, "mechanic")) =>
    LET lower == ToLowerCase(Arg("mechanic"))
        hits == RedFlagHits(lower)
        n == Cardinality(hits)
    IN /\ Returned
       /\ Len(locals.issues) = n + Len(FamilyIssuesDue(lower))
       /\ \A i \in hits :
            locals.issues[Cardinality({j \in hits : j <= i})] = PressuringIssue(redFlags[i])
       /\ SubSeq(locals.issues, n + 1, Len(locals.issues)) = FamilyIssuesDue(lower)
       /\ (Includes(lower, "timer") /\ Includes(lower, "leaderboard")) =>
            /\ n >= 2
            /\ Lists(locals.issues, PressuringIssue("timer"))
            /\ Lists(locals.issues, PressuringIssue("leaderboard"))

\* The mechanic of the test suite: two red flags and the time-pressure issue.
C10_Witness ==
  /\ Called("validate_engagement_safety")
  /\ Has(request.arguments, "mechanic")
  /\ Arg("mechanic") = "Timer-based challenges with leaderboard scoring"
  /\ Returned
  /\ locals.issues = <<PressuringIssue("leaderboard"), PressuringIssue("timer"),
                       "May create time pressure which causes stress in dyslexic learners">>

-----------------------------------------------------------------------------
(* C11 - validate_engagement_safety remediation *)

\* The remediation recommendations due for the text: one per matching
\* extrinsic-reward, comparison and time-pressure family, in the fixed order.
FamilyRecommendationsDue(text) ==
  (IF AnyOf(text, {"reward", "prize"})
   THEN <<"Focus on intrinsic motivators: curiosity, mastery, autonomy, purpose">> ELSE <<>>)
  \o (IF AnyOf(text, {"compare", "better than"})
      THEN <<"Focus on individual growth and personal achievement">> ELSE <<>>)
  \o (IF AnyOf(text, {"time", "speed", "fast"})
      THEN <<"Remove time elements or make them invisible/optional">> ELSE <<>>)

\* The number of rule families (red flags, extrinsic rewards, comparison, time
\* pressure) matching the text.
MatchingFamilies(text) ==
  (IF RedFlagHits(text) # {} THEN 1 ELSE 0) + Len(FamilyRecommendationsDue(text))

\* C11 (as stated): each of the four rule families that matches the lower-cased
\* mechanic contributes both an issue and a recommendation, so a result with at
\* least one issue carries at least one remediation recommendation.
C11_EveryFamilyIssueHasRecommendation ==
  (Called("validate_engagement_safety") /\ Has(request.arguments, "mechanic")) =>
    LET lower == ToLowerCase(Arg("mechanic"))
    IN /\ Returned
       /\ Len(locals.issues) >= MatchingFamilies(lower)
       /\ Len(locals.recommendations) >= MatchingFamilies(lower)
       /\ Len(locals.issues) > 0 => Len(locals.recommendations) > 0

-----------------------------------------------------------------------------
(* C12 - validate_engagement_safety proactive suggestions *)

ProactiveSuggestions ==
  <<"Consider adding story elements that create emotional investment",
    "Ensure child has agency and control over the experience",
    "Connect to helping others or solving meaningful problems">>

\* C12: the recommendations are the three proactive positive-design
\* suggestions exactly when no issue was found; when an issue was found none of
\* the three appears, neither in the list nor in the rendered text.
C12_ProactiveIffNoIssues ==
  (Called("validate_engagement_safety") /\ Has(request.arguments, "mechanic")) =>
    /\ Returned
    /\ (Len(locals.issues) = 0) <=> (locals.recommendations = ProactiveSuggestions)
    /\ Len(locals.issues) = 0 =>
         \A i \in 1..Len(ProactiveSuggestions) :
           Includes(Text, "- " \o ProactiveSuggestions[i])
    /\ Len(locals.issues) > 0 =>
         \A i \in 1..Len(ProactiveSuggestions) :
           /\ ~Lists(locals.recommendations, ProactiveSuggestions[i])
           /\ ~Includes(Text, ProactiveSuggestions[i])

\* A mechanic without findings gets the three suggestions.
C12_Witness ==
  /\ Called("validate_engagement_safety")
  /\ Has(request.arguments, "mechanic")
  /\ Arg("mechanic") = "Collaborative story building"
  /\ Returned
  /\ locals.issues = <<>>
  /\ locals.recommendations = ProactiveSuggestions

-----------------------------------------------------------------------------
(* C13 - generate_phoneme_activity sub-trees *)

\* The member of a JSON object stored under the key.
Member(obj, key) ==
  LET i == CHOOSE i \in 1..Len(obj.members) : obj.members[i][1] = key
  IN obj.members[i][2]

\* The keys of a JSON object, in insertion order.
Keys(obj) == [i \in 1..Len(obj.members) |-> obj.members[i][1]]

HasMember(obj, key) == Lists(Keys(obj), key)

\* The four modalities in the order the handler examines them.
KnownModalities == <<"visual", "auditory", "kinesthetic", "tactile">>

\* C13: the components of the activity descriptor are the sub-trees of exactly
\* the requested modalities among visual, auditory, kinesthetic and tactile,
\* followed by the assessment sub-tree with its three fixed mastery indicators
\* and its fixed five-stage practice structure; a modality that was not
\* requested has no sub-tree in the descriptor or in the rendered text.
C13_RequestedModalitiesPlusAssessment ==
  (Called("generate_phoneme_activity")
     /\ {"phoneme", "modalities"} \subseteq DOMAIN request.arguments) =>
    /\ Returned
    /\ LET components == Member(locals.activity, "components")
           assessment == Member(components, "assessment")
       IN /\ Keys(components)
               = Filter(KnownModalities, LAMBDA m : Lists(Arg("modalities"), m))
                   \o <<"assessment">>
          /\ \A i \in 1..Len(KnownModalities) :
               LET m == KnownModalities[i]
               IN /\ Lists(Arg("modalities"), m) <=> HasMember(components, m)
                  /\ Lists(Arg("modalities"), m)
                       <=> Includes(Text, "\"" \o m \o "\": {")
                  /\ HasMember(components, m) =>
                       /\ Member(components, m).t = "object"
                       /\ Len(Member(components, m).members) = 3
          /\ Keys(assessment) = <<"masteryIndicators", "practiceStructure">>
          /\ Member(assessment, "masteryIndicators")
               = JArr(<<JStr("Automatic recognition (< 2 seconds)"),
                        JStr("Correct sound production"),
                        JStr("Proper letter formation")>>)
          /\ Member(assessment, "practiceStructure")
               = JStr("Present " \o ARROW \o " Model " \o ARROW \o " Practice "
                        \o ARROW \o " Assess " \o ARROW \o " Celebrate")
          /\ Includes(Text, "\"assessment\": {")

\* The request of the test suite: three sub-trees and the assessment, no
\* tactile sub-tree.
C13_Witness ==
  /\ Called("generate_phoneme_activity")
  /\ request.arguments = [phoneme |-> "a",
                          modalities |-> <<"visual", "auditory", "kinesthetic">>]
  /\ Returned
  /\ Keys(Member(locals.activity, "components"))
       = <<"visual", "auditory", "kinesthetic", "assessment">>
  /\ ~Includes(Text, "tactile")

-----------------------------------------------------------------------------
(* C14 - generate_dyslexia_ui accessibility properties *)

\* The explanatory note after the component lists the three properties.
NoteListsAccessibility ==
  /\ Includes(Text, "- Large touch targets (min 44px)")
  /\ Includes(Text, "- Proper ARIA labels")
  /\ Includes(Text, "- Focus indicators")

\* C14 (as stated): every component template emitted for button, text, input
\* or card carries the accessibility properties listed in the explanatory
\* note: a minimum target size, a focus indication and an ARIA label carrying
\* the content.
C14_TemplatesCarryAccessibility ==
  (Called("generate_dyslexia_ui")
     /\ {"componentType", "content"} \subseteq DOMAIN request.arguments
     /\ Arg("componentType") \in ComponentTypes) =>
    /\ Returned
    /\ NoteListsAccessibility
    /\ Includes(locals.component, "min-h-[")
    /\ Includes(locals.component, "focus:")
    /\ Includes(locals.component, "aria-label=\"" \o Arg("content") \o "\"")

-----------------------------------------------------------------------------
(* C15 - total lookups *)

\* The colour family of each declared intent.
IntentColour(intent) ==
  CASE intent = "primary" -> "green"
    [] intent = "secondary" -> "gray"
    [] intent = "comfort" -> "pink"
    [] intent = "celebration" -> "blue"

ThemeFields == {"setting", "character", "motivation", "language"}

\* C15: each of the six theme tags resolves to a theme record of the table,
\* each of the four intents (an omitted intent counting as primary) resolves to
\* a colour scheme, and each stress level (an omitted one counting as low)
\* resolves to a complexity tag, high to simple, medium to moderate, anything
\* else to rich; none of the lookups yields undefined.
C15_LookupsTotalOnEnums ==
  /\ DOMAIN themes = Themes
  /\ (Called("generate_engagement_activity")
        /\ {"phoneme", "theme", "inputMethods"} \subseteq DOMAIN request.arguments
        /\ Arg("theme") \in Themes) =>
       /\ Returned
       /\ locals.selectedTheme.t = "own"
       /\ locals.selectedTheme.v = themes[Arg("theme")]
       /\ DOMAIN locals.selectedTheme.v = ThemeFields
       /\ \A f \in ThemeFields : Len(locals.selectedTheme.v[f]) > 0
       /\ LET stressLevel == IF Has(request.arguments, "stressLevel")
                             THEN Arg("stressLevel") ELSE "low"
          IN /\ stressLevel = "high" => locals.complexity = "simple"
             /\ stressLevel = "medium" => locals.complexity = "moderate"
             /\ stressLevel \notin {"high", "medium"} => locals.complexity = "rich"
             /\ Includes(Text, "\"complexity\": \"" \o locals.complexity \o "\"")
  /\ (Called("generate_dyslexia_ui")
        /\ (Has(request.arguments, "intent") => Arg("intent") \in Intents)) =>
       /\ Returned
       /\ LET intent == IF Has(request.arguments, "intent")
                        THEN Arg("intent") ELSE "primary"
              colour == IntentColour(intent)
          IN locals.colors = [bg |-> "bg-" \o colour \o "-100",
                              border |-> "border-" \o colour \o "-200",
                              text |-> "text-" \o colour \o "-900"]

\* A declared theme with a medium stress level: its own record and 'moderate'.
C15_Witness ==
  /\ Called("generate_engagement_activity")
  /\ {"phoneme", "theme", "inputMethods", "stressLevel"} \subseteq DOMAIN request.arguments
  /\ Arg("theme") = "mystery"
  /\ Arg("stressLevel") = "medium"
  /\ Returned
  /\ locals.selectedTheme.v.setting = "International detective agency"
  /\ locals.complexity = "moderate"

-----------------------------------------------------------------------------
(* C16 - missing required keys *)

\* The required keys the arguments of the current call lack.
MissingKeys == Required(request.name) \ DOMAIN request.arguments

\* The call ended in a runtime type failure.
TypeFailure == response.kind = "error" /\ response.error.name = "TypeError"

\* C16 (as stated): for every tool, a call whose arguments lack one of the
\* tool's required keys ends in a runtime type failure and not in a text
\* response.
C16_MissingKeyIsTypeFailure ==
  (pc = "done" /\ request.name \in ToolNames /\ MissingKeys # {}) => TypeFailure

\* The handler dereferences a value the arguments of the current call lack.
DereferencesMissing ==
  LET name == request.name
      args == request.arguments
  IN CASE name \in {"review_trauma_content", "review_code_safety",
                    "validate_engagement_safety"} -> TRUE
       [] name = "generate_phoneme_activity" ->
            \/ "modalities" \in MissingKeys
            \/ Lists(args.modalities, "visual")
       [] name = "generate_engagement_activity" ->
            \/ "theme" \in MissingKeys
            \/ "inputMethods" \in MissingKeys
            \/ args.theme \notin Themes \cup ObjectPrototypeKeys
       [] name = "validate_og_activity" ->
            /\ "targetLevel" \notin MissingKeys
            /\ args.targetLevel \in DefinedLevels
       [] OTHER -> FALSE

\* C16 (amended): a call whose arguments lack a required key ends in a runtime
\* type failure exactly when the handler dereferences the absent value, and in
\* a text response otherwise. review_trauma_content, review_code_safety and
\* validate_engagement_safety always fail; generate_phoneme_activity fails
\* without modalities, and without phoneme only when 'visual' is requested;
\* generate_engagement_activity fails without theme or inputMethods but not
\* without phoneme alone; validate_og_activity fails only without activity at a
\* level that resolves, and answers the invalid-level text without
\* targetLevel; generate_dyslexia_ui and generate_stress_protocol never fail:
\* they answer a component text with 'undefined' in it and the
\* invalid-parameters text.
C16_MissingKeyFailsIffDereferenced ==
  (pc = "done" /\ request.name \in ToolNames /\ MissingKeys # {}) =>
    /\ DereferencesMissing <=> TypeFailure
    /\ ~DereferencesMissing <=> Returned
    /\ (Returned /\ request.name = "generate_stress_protocol") =>
         StartsWith(Text, CROSS \o " Invalid protocol parameters.")
    /\ (Returned /\ request.name = "validate_og_activity"
          /\ "targetLevel" \in MissingKeys) =>
         Text = CROSS \o " Invalid OG level: undefined. Must be 1-3."
    /\ (Returned /\ request.name = "generate_dyslexia_ui") =>
         StartsWith(Text, "Generated dyslexia-friendly ")

\* An empty arguments object for generate_stress_protocol is answered with the
\* invalid-parameters text.
C16_Witness ==
  /\ Called("generate_stress_protocol")
  /\ MissingKeys = {"triggerType", "severity"}
  /\ Returned
  /\ StartsWith(Text, CROSS \o " Invalid protocol parameters.")

-----------------------------------------------------------------------------
(* C17 - determinism and read-only tables *)

-----------------------------------------------------------------------------
(* C18 - review_trauma_content alternatives *)

EncouragementAlternatives ==
  <<"Great try! Let's practice that together.",
    "You're learning! Every attempt makes your brain stronger.",
    "Want to try another way?",
    "Nice work exploring that sound!">>

\* The alternatives as the text lists them, under their heading.
AlternativesSection ==
  "\n\nPositive Alternatives:\n"
    \o Join([i \in 1..Len(EncouragementAlternatives) |->
               "- \"" \o EncouragementAlternatives[i] \o "\""], "\n")
    \o "\n\nPrinciples Applied:"

\* C18: the alternatives are the fixed ordered list of four encouragement
\* sentences exactly when at least one issue was recorded, the same four
\* whatever phrases matched; with no issue there are no alternatives, in the
\* list or in the rendered text.
C18_FourAlternativesIffIssues ==
  (Called("review_trauma_content") /\ Has(request.arguments, "content")) =>
    /\ Returned
    /\ Len(locals.issues) > 0 =>
         /\ locals.alternatives = EncouragementAlternatives
         /\ Includes(Text, AlternativesSection)
    /\ Len(locals.issues) = 0 =>
         /\ locals.alternatives = <<>>
         /\ ~Includes(Text, "Positive Alternatives")
         /\ \A i \in 1..Len(EncouragementAlternatives) :
              ~Includes(Text, EncouragementAlternatives[i])

\* The message of the test suite has two issues and gets the four
\* alternatives.
C18_Witness ==
  /\ Called("review_trauma_content")
  /\ Has(request.arguments, "content")
  /\ Arg("content") = "You got that wrong! Try again."
  /\ Returned
  /\ Len(locals.issues) >= 2
  /\ locals.alternatives = EncouragementAlternatives

-----------------------------------------------------------------------------
(* C19 - generate_engagement_activity optional blocks *)

\* The five input methods in the order the handler examines them.
KnownInputMethods == <<"touch", "voice", "camera", "microphone", "bluetooth">>

\* C19: the interactions block has a sub-tree for exactly the supplied input
\* methods among touch, voice, camera, microphone and bluetooth, and the
\* stress-adaptation block is present exactly when stressLevel is 'high'; an
\* omitted stressLevel behaves as 'low', without the block.
C19_OptionalBlocksFollowInputs ==
  (Called("generate_engagement_activity")
     /\ {"theme", "inputMethods"} \subseteq DOMAIN request.arguments
     /\ Arg("theme") \in Themes) =>
    /\ Returned
    /\ LET interactions == Member(locals.activity, "interactions")
           high == Has(request.arguments, "stressLevel") /\ Arg("stressLevel") = "high"
       IN /\ Keys(interactions)
               = Filter(KnownInputMethods, LAMBDA m : Lists(Arg("inputMethods"), m))
          /\ \A i \in 1..Len(KnownInputMethods) :
               LET m == KnownInputMethods[i]
               IN /\ Lists(Arg("inputMethods"), m) <=> HasMember(interactions, m)
                  /\ Lists(Arg("inputMethods"), m)
                       <=> Includes(Text, "\"" \o m \o "\": {")
          /\ high <=> HasMember(locals.activity, "stressAdaptations")
          /\ high <=> Includes(Text, "Stress Adaptations:\n{")
          /\ ~Has(request.arguments, "stressLevel") =>
               /\ ~HasMember(locals.activity, "stressAdaptations")
               /\ Includes(Text, "\nStress Level: low\n")
               /\ locals.complexity = "rich"

\* Four input methods under high stress: four sub-trees and the
\* stress-adaptation block.
C19_Witness ==
  /\ Called("generate_engagement_activity")
  /\ Has(request.arguments, "stressLevel")
  /\ Arg("stressLevel") = "high"
  /\ Arg("inputMethods") = <<"touch", "camera", "microphone", "bluetooth">>
  /\ Returned
  /\ Keys(Member(locals.activity, "interactions"))
       = <<"touch", "camera", "microphone", "bluetooth">>
  /\ HasMember(locals.activity, "stressAdaptations")

-----------------------------------------------------------------------------
(* C20 - validate_og_activity: multisensory implies phoneme focus *)

\* The modality name contains a phoneme of the level.
NameHasPhonemeOf(name, level) ==
  \E i \in 1..Len(level.phonemes) : Includes(name, level.phonemes[i])

\* C20: each of the four modality names contains a phoneme of each of the
\* three levels; so in every report at a defined level isMultisensory implies
\* hasPhonemesFocus, meetsLevel equals isMultisensory, and the phoneme-focus
\* issue is never reported while the multisensory criterion passes.
C20_MultisensoryImpliesPhonemeFocus ==
  /\ \A i \in 1..Len(modalities) : \A l \in 1..Len(OGLevels) :
       NameHasPhonemeOf(modalities[i], OGLevels[l])
  /\ (Called("validate_og_activity")
        /\ {"activity", "targetLevel"} \subseteq DOMAIN request.arguments
        /\ Arg("targetLevel") \in DefinedLevels) =>
       /\ Validated
       /\ locals.validation.isMultisensory => locals.validation.hasPhonemesFocus
       /\ locals.validation.meetsLevel <=> locals.validation.isMultisensory
       /\ locals.validation.isMultisensory =>
            /\ locals.validation.issues = <<>>
            /\ Includes(Text, "- Phoneme Focus: " \o CHECK)
            /\ Includes(Text, CHECK \o " OG COMPLIANT")
       /\ ModalityNamesIn(Serialized) >= 1 => locals.validation.hasPhonemesFocus

\* An activity that names two modalities and nothing else passes at level 3.
C20_Witness ==
  /\ Validated
  /\ Arg("targetLevel") = 30
  /\ Arg("activity") = JObj(<< <<"Visual", JStr("auditory")>> >>)
  /\ locals.validation.isMultisensory
  /\ locals.validation.hasPhonemesFocus
  /\ locals.validation.meetsLevel

-----------------------------------------------------------------------------
(* C21 - review_code_safety matches case-sensitively *)

\* The code, exactly as given, shows none of the three patterns.
CodeClean(code) ==
  /\ ~AnyOf(code, {"fail", "error", "wrong"})
  /\ ~AnyOf(code, {"timeout", "time limit"})
  /\ ~(Includes(code, "onClick") /\ ~Includes(code, "aria-label"))

\* C21: review_code_safety reports the code trauma-safe exactly when the code
\* as given, without lower-casing, contains none of 'fail', 'error', 'wrong',
\* none of 'timeout', 'time limit', and no 'onClick' without 'aria-label'; so
\* code whose only such words are 'FAIL' or 'Error' is reported safe, while
\* the two text review tools lower-case their input and report 'Mistake' or
\* 'WIN'.
C21_CodeReviewIsCaseSensitive ==
  /\ (Called("review_code_safety") /\ Has(request.arguments, "code")) =>
       /\ Returned
       /\ locals.verdict <=> CodeClean(Arg("code"))
       /\ Includes(Text, CHECK \o " CODE IS TRAUMA-SAFE") <=> CodeClean(Arg("code"))
       /\ Includes(Text, WARN \o " SAFETY ISSUES DETECTED") <=> ~CodeClean(Arg("code"))
       /\ (CodeClean(Arg("code")) /\ ~CodeClean(ToLowerCase(Arg("code")))) =>
            /\ locals.verdict
            /\ locals.issues = <<>>
  /\ (Called("review_trauma_content") /\ Has(request.arguments, "content")
        /\ AnyOf(ToLowerCase(Arg("content")), {"wrong", "mistake", "must"})) =>
       /\ Returned
       /\ ~locals.verdict
  /\ (Called("validate_engagement_safety") /\ Has(request.arguments, "mechanic")
        /\ AnyOf(ToLowerCase(Arg("mechanic")), {"win", "timer"})) =>
       /\ Returned
       /\ ~locals.verdict

\* Code whose words are 'FAIL' and 'Error' is reported safe.
C21_Witness ==
  /\ Called("review_code_safety")
  /\ Has(request.arguments, "code")
  /\ Arg("code") = "FAIL Error"
  /\ Returned
  /\ locals.verdict
  /\ Includes(Text, CHECK \o " CODE IS TRAUMA-SAFE")

-----------------------------------------------------------------------------
(* C22 - the optional context / language argument *)

\* The optional argument of the tool that the claim is about.
OptionalKey(name) ==
  IF name = "review_code_safety" THEN "language" ELSE "context"

\* The arguments without the key.
Without(args, key) == [k \in DOMAIN args \ {key} |-> args[k]]

\* The arguments with the key bound to the value.
With(args, key, value) ==
  [k \in DOMAIN args \cup {key} |-> IF k = key THEN value ELSE args[k]]

\* Values tried for the optional argument, trigger words among them.
OptionValues ==
  {"", "feedback message", "You must not fail", "timer reward", "python",
   "fail onClick"}

\* The verdict, the issues and the recommendations a handler arrived at.
Findings(l) ==
  [verdict |-> l.verdict,
   issues |-> l.issues,
   recommendations |-> IF "alternatives" \in DOMAIN l
                       THEN l.alternatives ELSE l.recommendations]

\* A call of one of the three tools, with its required text, has returned.
Reviewed ==
  /\ pc = "done"
  /\ request.name \in ReviewTools
  /\ MissingKeys = {}

\* C22: the context argument of review_trauma_content and
\* validate_engagement_safety and the language argument of review_code_safety
\* never influence the verdict, the issues or the recommendations: the same
\* call with that argument left out, or bound to any other value, arrives at
\* the same three; every reported word occurs in the reviewed text itself;
\* and the context is only echoed in the text, the language not at all.
C22_OptionalArgumentHasNoInfluence ==
  Reviewed =>
    LET name == request.name
        args == request.arguments
        key == OptionalKey(name)
        base == CallTool(name, Without(args, key))
        baseText == base.value.content[1].text
    IN /\ Returned
       /\ base.kind = "return"
       /\ Findings(base.locals) = Findings(locals)
       /\ \A x \in OptionValues :
            LET other == CallTool(name, With(args, key, x))
            IN /\ other.kind = "return"
               /\ Findings(other.locals) = Findings(locals)
       /\ name = "review_trauma_content" =>
            /\ \A i \in 1..Len(pressureWords) :
                 Lists(locals.issues, "May create pressure with word: \""
                                        \o pressureWords[i] \o "\"")
                   => Includes(ToLowerCase(Arg("content")), pressureWords[i])
            /\ Len(locals.issues)
                 = Cardinality(AvoidHits(Arg("content")))
                     + Cardinality({i \in 1..Len(pressureWords) :
                                      Includes(ToLowerCase(Arg("content")),
                                               pressureWords[i])})
       /\ name = "validate_engagement_safety" =>
            locals.issues
              = [i \in 1..Cardinality(RedFlagHits(ToLowerCase(Arg("mechanic")))) |->
                   locals.issues[i]]
                  \o FamilyIssuesDue(ToLowerCase(Arg("mechanic")))
       /\ name = "review_code_safety" => Text = baseText
       /\ (name # "review_code_safety" /\ Has(args, key)) =>
            /\ Includes(Text, "\nContext: " \o args[key] \o "\n\n")
            /\ Replace(Text, "\nContext: " \o args[key] \o "\n\n", "\nContext: \n\n")
                 = baseText

\* A compliant message reviewed under a context full of trigger words stays
\* compliant; the context shows in the text.
C22_Witness ==
  /\ Called("review_trauma_content")
  /\ {"content", "context"} \subseteq DOMAIN request.arguments
  /\ Arg("content") = "Let's practice this sound together."
  /\ Arg("context") = "You must not fail"
  /\ Returned
  /\ locals.verdict
  /\ locals.issues = <<>>
  /\ Includes(Text, "\nContext: You must not fail\n")

====
